---- MODULE Spec2Model ----
(***************************************************************************)
(* A model of the AMM orchestrator of solana-volume-sdk (class AMM and the *)
(* helpers of common.ts).                                                  *)
(*                                                                         *)
(* One AMM object is modelled.  Every action is the code that runs between *)
(* two suspension points (await) of one workflow, so the interleavings of  *)
(* the model are those of the single-threaded task queue.  The external    *)
(* services (chain RPC, aggregator, relay) answer nondeterministically.    *)
(*                                                                         *)
(* Numbers.  SOL amounts are kept in lamports: amount / 1e9 and x * 1e9    *)
(* are a change of unit, and the arithmetic is exact (rational) arithmetic *)
(* rather than IEEE doubles.  Math.random() is a draw rn / RandDen with    *)
(* rn in 0 .. RandDen-1, i.e. a value of [0, 1).                           *)
(*                                                                         *)
(* Keys.  Keypair.generate() returns the next unused key: the k-th call    *)
(* returns key k.                                                          *)
(***************************************************************************)
EXTENDS Integers, Sequences, FiniteSets, TLC

VARIABLES
    pc,                     \* position of the running workflow
    now,                    \* Date.now(), in ms
    blockhash,              \* this.blockhash; 0 is the empty string ""
    lastBlockhashRefresh,   \* this.lastBlockhashRefresh
    initPending,            \* the constructor's initializeBlockhash() has not settled
    cache,                  \* who wrote this.blockhash last, and its use since (history)
    keys,                   \* number of Keypair.generate() calls so far
    attempt,                \* signers, transactions and requests of the running attempt
    totalMakersRequired,    \* makers: argument
    stats,                  \* makers: the MakerStats object
    mrun,                   \* makers: what happened in this call (history)
    vin,                    \* volume: the call's arguments
    totalNetVolume,         \* volume: local, in lamports
    totalRealVolume,        \* volume: local, in lamports
    tradesUntilNextSell,    \* volume: local
    tradeCount,             \* volume: local
    direction,              \* volume: local of the current iteration; swap: argument
    amount,                 \* volume: local of the current iteration; swap: argument
    vit,                    \* volume: the current iteration (history)
    srun,                   \* swap: what happened in this call (history)
    fund,                   \* one funding-transaction build: its inputs and its result
    tbal                    \* one getTokenBalance call: the RPC's answer and its result

vars == << pc, now, blockhash, lastBlockhashRefresh, initPending, cache,
           keys, attempt, totalMakersRequired, stats, mrun,
           vin, totalNetVolume, totalRealVolume, tradesUntilNextSell,
           tradeCount, direction, amount, vit, srun, fund, tbal >>

sessionVars == << blockhash, lastBlockhashRefresh, initPending >>
attemptVars == << keys, attempt >>
makersVars == << totalMakersRequired, stats, mrun >>
volumeVars == << vin, totalNetVolume, totalRealVolume, tradesUntilNextSell,
                 tradeCount, direction, amount, vit >>
swapVars == << srun >>

(***************************************************************************)
(* Bounds of the model.                                                    *)
(***************************************************************************)
RandDen == 4            \* Math.random() takes the values rn / RandDen
MaxHash == 1            \* distinct recent-block values the RPC can return
MaxBundleId == 2        \* distinct bundle ids the relay can return
MaxMakers == 9          \* totalMakersRequired is in -1 .. MaxMakers, or ManyMakers
ManyMakers == 44        \* a totalMakersRequired that takes more than 10 bundles
MaxFailures == 2        \* failed iterations explored in one makers call
MaxCalls == 2           \* makers calls explored on one object
StartTime == 100000     \* Date.now() when the workflow is called
MaxIter == 3            \* iterations explored in one volume call
Fine == 2               \* minSolPerSwap, maxSolPerSwap are multiples of 1/Fine lamport
MaxSolFine == 2         \* minSolPerSwap, maxSolPerSwap are 0, 1 or MaxSolFine, in 1/Fine lamports
MaxMcap == 4            \* mCapFactor is one of 1/MaxMcap, 1, MaxMcap
MaxSpeed == 2           \* speedFactor is 1 or MaxSpeed
MaxSwapAmount == 2      \* largest amount of a swap call, in lamports
MaxIdleTicks == 1       \* clock steps that pass between two swap calls
JitoAccounts == 3       \* length of JITO_ACCOUNTS (constants.ts): any positive number
JitoUrls == 2           \* length of JITO_URLS (constants.ts): any positive number
MaxRoutes == 2          \* routes in the aggregator's answer to a quote request
MaxBalance == 1         \* largest balance the chain RPC answers with
ClockStep == 30000      \* a timer fires at the first multiple of ClockStep ms not before its delay

Rand == 0 .. (RandDen - 1)
Hashes == 1 .. MaxHash
BundleIds == 1 .. MaxBundleId
NoBundle == 0           \* latestBundleId: null
MakerTotals == (-1 .. MaxMakers) \cup {ManyMakers}
SolFines == {0, 1, MaxSolFine}
Speeds == {1, MaxSpeed}

(***************************************************************************)
(* Program constants.                                                      *)
(***************************************************************************)
MakersPerBundle == 4        \* Array.from({ length: 4 }, ...), signers.length
MakersRefreshBundles == 10  \* stats.bundleCount - lastBlockhashRefresh >= 10
VolumeRefreshMs == 60000    \* Date.now() - lastBlockhashRefresh >= 60_000
ErrorPauseMs == 5000        \* await this.wait(5000) in the catch blocks
BaseDelayMs == 5000         \* baseDelay = 5000 + Math.random() * 10000
DelaySpreadMs == 10000

(***************************************************************************)
(* The session state after the constructor: no recent-block value, marker  *)
(* 0, and initializeBlockhash() started but not awaited.                   *)
(***************************************************************************)
SessionInit ==
    /\ blockhash = 0
    /\ lastBlockhashRefresh = 0
    /\ initPending = TRUE
    /\ now = StartTime

\* History of this.blockhash: `by` is the writer of the cached value ("none",
\* "init", "makers", "volume"); `own` says the running call has refreshed it and
\* `at` is Date.now() at its last refresh (volume); `acked` and `submitted` count
\* the bundles of the running makers call acknowledged and submitted since the
\* value was written or the call began.
NoCache ==
    [ by |-> "none", own |-> FALSE, at |-> 0, acked |-> 0, submitted |-> 0 ]

\* The cached value has just been written by `who`.
Written(who) ==
    [ cache EXCEPT !.by = who, !.acked = 0, !.submitted = 0 ]

\* initializeBlockhash() settles: the RPC answered (h = 0: an answer without a
\* usable blockhash) or failed (the promise rejects, nothing is written).
InitializeBlockhashDone ==
    /\ initPending
    /\ initPending' = FALSE
    /\ \/ \E h \in 0 .. MaxHash :
            /\ blockhash' = h
            /\ lastBlockhashRefresh' = 0
            /\ cache' = Written("init")
       \/ UNCHANGED << blockhash, lastBlockhashRefresh, cache >>
    /\ UNCHANGED << pc, now, attemptVars, makersVars, volumeVars, swapVars, fund, tbal >>

\* wait(ms), ms = num / den: setTimeout resolves no earlier than ms from now.
\* The time that has passed when the workflow resumes.
Elapsed(num, den) ==
    ((num + den * ClockStep - 1) \div (den * ClockStep)) * ClockStep

\* createVtxWithOnlyMainSigner: the guard on the recent-block value.
InvalidBlockhashNever(h) == FALSE

InvalidBlockhash(h) == h = 0

(***************************************************************************)
(* Transactions, requests and bundles.                                     *)
(***************************************************************************)
\* The quote request of swapMakers / swapVolume: the query parameters that
\* depend on the call.  WsolMint is WSOL_MINT, TokenMint the mint argument.
WsolMint == "wsol"
TokenMint == "mint"
MakersAmount == 1           \* const amount = 1 in swapMakers

NoQuote ==
    [ swapMode |-> "none", inputMint |-> "none", outputMint |-> "none", amount |-> 0 ]

\* swapMakers: the amount is 1, a buy asks for an exact output.
SwapMakersQuote(dir) ==
    [ swapMode |-> IF dir = "buy" THEN "ExactOut" ELSE "ExactIn",
      inputMint |-> IF dir = "buy" THEN WsolMint ELSE TokenMint,
      outputMint |-> IF dir = "buy" THEN TokenMint ELSE WsolMint,
      amount |-> MakersAmount ]

\* swapVolume: the amount is the argument, a buy gives an exact input.
SwapVolumeQuoteAsMakers(dir, amt) ==
    [ SwapMakersQuote(dir) EXCEPT !.amount = amt ]

SwapVolumeQuote(dir, amt) ==
    [ swapMode |-> IF dir = "buy" THEN "ExactIn" ELSE "ExactOut",
      inputMint |-> IF dir = "buy" THEN WsolMint ELSE TokenMint,
      outputMint |-> IF dir = "buy" THEN TokenMint ELSE WsolMint,
      amount |-> amt ]

\* Nothing is being built or sent.  `done` is the number of swap requests of the
\* attempt that have produced their signed transaction, `quote` is the quote
\* request that each swap request of the attempt makes.
NoAttempt ==
    [ signers |-> << >>, reqs |-> << >>, txs |-> << >>, done |-> 0,
      quote |-> NoQuote, posts |-> 0 ]

\* Array.from({ length: n }, () => Keypair.generate()) after k earlier calls.
Generate(k, n) == [ i \in 1 .. n |-> k + i ]

\* createFundTx / createFundSingleTx: the funded accounts are the signers' public
\* keys in order, the transaction carries the recent-block value given.
FundTx(signers, h) ==
    [ type |-> "fund", recentBlockhash |-> h, accounts |-> signers ]

\* The arguments of one swapMakers / swapVolume call.
SwapRequest(signer, h) == [ signer |-> signer, blockhash |-> h ]

\* swapMakers / swapVolume return: recentBlockhash is set to the blockhash
\* argument and the transaction is signed by the signer argument.
SwapTransactionCurrentHash(req) ==
    [ type |-> "swap", recentBlockhash |-> blockhash, accounts |-> << req.signer >> ]

SwapTransaction(req) ==
    [ type |-> "swap", recentBlockhash |-> req.blockhash,
      accounts |-> << req.signer >> ]

\* The orders in which n concurrent requests can complete.
CompletionOrders(n) == Permutations(1 .. n)

\* Promise.all(signers.map(...)): the results in the order of the requests,
\* whatever the order ord in which they completed.
PromiseAllAsCompleted(reqs, ord) ==
    [ i \in 1 .. Len(reqs) |-> SwapTransaction(reqs[ord[i]]) ]

PromiseAll(reqs, ord) ==
    [ i \in 1 .. Len(reqs) |-> SwapTransaction(reqs[i]) ]

\* With the signers of the attempt and the recent-block value h the funding
\* transaction is built and one swap request per signer is started with h.
Fund(signers, h) ==
    [ signers |-> signers,
      reqs |-> [ i \in 1 .. Len(signers) |-> SwapRequest(signers[i], h) ],
      txs |-> << FundTx(signers, h) >>,
      done |-> 0,
      quote |-> NoQuote,
      posts |-> 0 ]

\* n signers are generated after k earlier keys, then Fund.
BuildReusingKeys(k, n, h) == Fund(Generate(IF k >= n THEN k - n ELSE k, n), h)

Build(k, n, h) == Fund(Generate(k, n), h)

\* serializedTxs = [fundTx, ...swapTxs]
Serialized(a, swapTxs) == [ a EXCEPT !.txs = << a.txs[1] >> \o swapTxs ]

\* sendBundle(bundled, url): one POST is made and awaited, then the body of the
\* answer is returned; `posts` counts the POSTs of the running call.  There is
\* no loop in sendBundle: whatever the outcome of the POST, it is not made again.
Posted(a) == [ a EXCEPT !.posts = @ + 1 ]

SendBundleRetriesOnError(outcome) == outcome = "neterr"

SendBundleRetries(outcome) == FALSE

\* Promise.all fulfils when every request has produced its transaction.
AllSettledButOne(done, n) == done >= n - 1

AllSettledNever(done, n) == FALSE

AllSettled(done, n) == done = n

(***************************************************************************)
(* getSolBalance() and getTokenBalance(mint).  The answer of the chain RPC *)
(* is a failure or a balance; the result says whether the method raised    *)
(* and what it returned (lamports / 1e9 and amount / 10 ** decimals are a  *)
(* change of unit).                                                        *)
(***************************************************************************)
BalanceAnswers ==
    { [ ok |-> FALSE, balance |-> 0 ] } \cup
    { [ ok |-> TRUE, balance |-> b ] : b \in 0 .. MaxBalance }

\* try { return (await getBalance(...)) / 1e9 } catch { log; return 0 }
GetSolBalanceUncaught(ans) ==
    [ raised |-> ~ans.ok, value |-> ans.balance ]

GetSolBalance(ans) ==
    [ raised |-> FALSE, value |-> IF ans.ok THEN ans.balance ELSE 0 ]

\* try { ata; return amount / 10 ** decimals } catch { log; return 0 }
GetTokenBalance(ans) ==
    [ raised |-> FALSE, value |-> IF ans.ok THEN ans.balance ELSE 0 ]

NoBalanceCall == [ stage |-> "none", ok |-> FALSE, raised |-> FALSE, value |-> 0 ]

\* getTokenBalance(mint) is called on the object: the ATA is computed and
\* getTokenAccountBalance is awaited.
CallGetTokenBalance ==
    /\ pc = "idle"
    /\ pc' = "t_balance"
    /\ tbal' = [ NoBalanceCall EXCEPT !.stage = "called" ]
    /\ UNCHANGED << now, sessionVars, cache, attemptVars, makersVars, volumeVars,
                    swapVars, fund >>

\* getTokenAccountBalance settles: getTokenBalance returns.
GetTokenBalanceDone ==
    /\ pc = "t_balance"
    /\ \E ans \in BalanceAnswers :
          LET b == GetTokenBalance(ans)
          IN  /\ tbal' = [ stage |-> "settled", ok |-> ans.ok, raised |-> b.raised,
                           value |-> b.value ]
              /\ pc' = IF b.raised THEN "t_rejected" ELSE "t_returned"
    /\ UNCHANGED << now, sessionVars, cache, attemptVars, makersVars, volumeVars,
                    swapVars, fund >>

(***************************************************************************)
(* makers(mint, totalMakersRequired, options)                              *)
(***************************************************************************)
SwapResults == {"ok", "noroute", "noswaptx", "neterr"}

NewStats(total) ==
    [ makersCompleted |-> 0, makersRemaining |-> total, bundleCount |-> 0,
      latestBundleId |-> NoBundle, finished |-> FALSE ]

\* History of one makers call: `call` is its index on the object, `outcome` is
\* how the last iteration ended ("none" while it runs), `error` is what it threw
\* and `joined` the number of its swap requests that had produced a transaction
\* when Promise.all settled.
NewRun ==
    [ call |-> 0, iterations |-> 0, submitted |-> 0, failures |-> 0, kinds |-> {},
      outcome |-> "none", error |-> "none", joined |-> 0 ]

\* A failed iteration of the running makers call, caused by service `kind`.
Failed(kind) ==
    [ mrun EXCEPT !.failures = @ + 1, !.kinds = @ \cup {kind} ]

\* The iteration threw err: the catch block is entered.
Threw(kind, err) == [ Failed(kind) EXCEPT !.outcome = "throw", !.error = err ]

\* The relay answered without a result: the if is skipped.
NotAcked == [ Failed("relay") EXCEPT !.outcome = "nack" ]

MayFail == mrun.failures < MaxFailures

\* The call: options are read, stats is created, control is at the while test.
CallMakers ==
    /\ pc = "idle"
    /\ \E total \in MakerTotals :
          /\ totalMakersRequired' = total
          /\ stats' = NewStats(total)
    /\ mrun' = [ NewRun EXCEPT !.call = mrun.call + 1 ]
    /\ cache' = [ cache EXCEPT !.own = FALSE, !.acked = 0, !.submitted = 0 ]
    /\ pc' = "m_loop"
    /\ UNCHANGED << now, sessionVars, attemptVars, volumeVars, swapVars, fund, tbal >>

\* while (stats.makersCompleted < totalMakersRequired)
MakersLoopTestOffByBatch ==
    stats.makersCompleted + MakersPerBundle < totalMakersRequired

MakersLoopTestRetryCap ==
    stats.makersCompleted < totalMakersRequired /\ mrun.failures < MaxFailures

MakersLoopTestInclusive == stats.makersCompleted <= totalMakersRequired

MakersLoopTest == stats.makersCompleted < totalMakersRequired

\* if (!this.blockhash || stats.bundleCount - this.lastBlockhashRefresh >= 10)
MakersNeedsRefreshLate ==
    \/ blockhash = 0
    \/ stats.bundleCount - lastBlockhashRefresh > MakersRefreshBundles

MakersNeedsRefresh ==
    \/ blockhash = 0
    \/ stats.bundleCount - lastBlockhashRefresh >= MakersRefreshBundles

\* The success branch of the response test: the stats after an acknowledged bundle.
MakersAckedShort(s, id) ==
    [ s EXCEPT !.bundleCount = @ + 1,
               !.latestBundleId = id,
               !.makersCompleted = @ + (MakersPerBundle - 1),
               !.makersRemaining =
                    totalMakersRequired - (s.makersCompleted + (MakersPerBundle - 1)) ]

MakersAckedIdKept(s, id) ==
    [ s EXCEPT !.bundleCount = @ + 1,
               !.makersCompleted = @ + MakersPerBundle,
               !.makersRemaining =
                    totalMakersRequired - (s.makersCompleted + MakersPerBundle) ]

MakersAckedRemainingStale(s, id) ==
    [ s EXCEPT !.bundleCount = @ + 1,
               !.latestBundleId = id,
               !.makersCompleted = @ + MakersPerBundle ]

MakersAcked(s, id) ==
    [ s EXCEPT !.bundleCount = @ + 1,
               !.latestBundleId = id,
               !.makersCompleted = @ + MakersPerBundle,
               !.makersRemaining =
                    totalMakersRequired - (s.makersCompleted + MakersPerBundle) ]

\* Where makers goes on after sendBundle has settled: into the if on a result
\* (getSolBalance is awaited), to the while test when the if is skipped, into
\* the catch block when sendBundle threw.
MakersResumePausing(outcome) ==
    IF outcome = "ack" THEN "m_balance" ELSE "m_pause"

MakersResume(outcome) ==
    CASE outcome = "ack" -> "m_balance"
      [] outcome = "nack" -> "m_loop"
      [] OTHER -> "m_pause"

\* await this.wait(5000) in the catch block: the time that passes.
MakersCatchPauseNone == Elapsed(0, 1)

MakersCatchPause == Elapsed(ErrorPauseMs, 1)

\* From Array.from(... Keypair.generate()) to the swapMakers calls, with the
\* recent-block value h: 4 signers are generated, then the funding transaction
\* is built (createVtxWithOnlyMainSigner throws on an unusable value) and the 4
\* swapMakers calls are started.
MakersBuild(run, h) ==
    /\ keys' = keys + MakersPerBundle
    /\ IF InvalidBlockhash(h)
       THEN /\ MayFail
            /\ pc' = "m_pause"
            /\ attempt' = NoAttempt
            /\ mrun' = [ run EXCEPT !.failures = @ + 1, !.kinds = @ \cup {"rpc"},
                                    !.outcome = "throw", !.error = "invalidblockhash" ]
       ELSE /\ pc' = "m_swaps"
            /\ attempt' = [ Build(keys, MakersPerBundle, h)
                               EXCEPT !.quote = SwapMakersQuote("buy") ]
            /\ mrun' = run

\* The loop test; then either the loop ends and makers returns, or the try block
\* runs to its first await: the RPC call of a refresh, or the 4 swapMakers calls.
MakersLoop ==
    /\ pc = "m_loop"
    /\ IF MakersLoopTest
       THEN LET run == [ mrun EXCEPT !.iterations = @ + 1, !.outcome = "none",
                                     !.error = "none", !.joined = 0 ]
            IN  IF MakersNeedsRefresh
                THEN /\ pc' = "m_refresh"
                     /\ mrun' = run
                     /\ UNCHANGED << attemptVars, stats >>
                ELSE /\ MakersBuild(run, blockhash)
                     /\ UNCHANGED stats
       ELSE /\ stats' = [ stats EXCEPT !.finished = TRUE ]
            /\ pc' = "m_returned"
            /\ UNCHANGED << attemptVars, mrun >>
    /\ UNCHANGED << now, sessionVars, cache, totalMakersRequired, volumeVars, swapVars, fund, tbal >>

\* getLatestBlockhash settles.  An answer is stored with the bundle count as the
\* marker and the iteration goes on; a rejection goes to the catch block.
MakersRefreshDone ==
    /\ pc = "m_refresh"
    /\ \/ \E h \in 0 .. MaxHash :
            /\ blockhash' = h
            /\ lastBlockhashRefresh' = stats.bundleCount
            /\ cache' = [ Written("makers") EXCEPT !.own = TRUE ]
            /\ MakersBuild(mrun, h)
       \/ /\ MayFail
          /\ pc' = "m_pause"
          /\ mrun' = Threw("rpc", "rpc")
          /\ UNCHANGED << blockhash, lastBlockhashRefresh, cache, attemptVars >>
    /\ UNCHANGED << now, initPending, totalMakersRequired, stats, volumeVars, swapVars, fund, tbal >>

\* One of the swapMakers calls that Promise.all waits for settles.  With its
\* signed transaction one more request is done; when all 4 are, Promise.all
\* fulfils with the transactions in the order of the requests, whatever the
\* order ord in which they completed, the bundle is serialized and sendBundle is
\* called.  If the call threw (no route, no swap transaction, network error)
\* Promise.all rejects at once and the catch block runs; the requests still in
\* flight go on, and what they return is dropped.
MakersSwapsDone ==
    /\ pc = "m_swaps"
    /\ attempt.done < MakersPerBundle
    /\ \/ IF AllSettled(attempt.done + 1, MakersPerBundle)
          THEN \E ord \in CompletionOrders(MakersPerBundle) :
                  /\ pc' = "m_send"
                  /\ attempt' = [ Posted(Serialized(attempt, PromiseAll(attempt.reqs, ord)))
                                    EXCEPT !.done = attempt.done + 1 ]
                  /\ mrun' = [ mrun EXCEPT !.submitted = @ + 1,
                                           !.joined = attempt.done + 1 ]
                  /\ cache' = [ cache EXCEPT !.submitted = @ + 1 ]
          ELSE /\ attempt' = [ attempt EXCEPT !.done = @ + 1 ]
               /\ UNCHANGED << pc, mrun, cache >>
       \/ \E res \in SwapResults \ {"ok"} :
             /\ MayFail
             /\ pc' = "m_pause"
             /\ attempt' = NoAttempt
             /\ mrun' = [ Threw("agg", res) EXCEPT !.joined = attempt.done ]
             /\ UNCHANGED cache
    /\ UNCHANGED << now, sessionVars, keys, totalMakersRequired, stats, volumeVars, swapVars, fund, tbal >>

\* sendBundle settles: a response with a result, a response without one (the
\* if is skipped and the loop goes on), or a rejection (catch block).
MakersSendDone ==
    /\ pc = "m_send"
    /\ \/ \E id \in BundleIds :
            /\ stats' = MakersAcked(stats, id)
            /\ pc' = MakersResume("ack")
            /\ mrun' = [ mrun EXCEPT !.outcome = "ack" ]
            /\ cache' = [ cache EXCEPT !.acked = @ + 1 ]
            /\ attempt' = NoAttempt
       \/ /\ MayFail
          /\ pc' = MakersResume("nack")
          /\ mrun' = NotAcked
          /\ attempt' = NoAttempt
          /\ UNCHANGED << stats, cache >>
       \/ /\ MayFail
          /\ IF SendBundleRetries("neterr")
             THEN /\ attempt.posts <= 1
                  /\ attempt' = Posted(attempt)
                  /\ UNCHANGED << pc, mrun >>
             ELSE /\ pc' = MakersResume("throw")
                  /\ mrun' = Threw("relay", "relay")
                  /\ attempt' = NoAttempt
          /\ UNCHANGED << stats, cache >>
    /\ UNCHANGED << now, sessionVars, keys, totalMakersRequired, volumeVars, swapVars, fund, tbal >>

\* getSolBalance settles (it returns 0 when the RPC fails); the line is logged
\* and the loop goes to its test.  An exception here would be inside the try
\* block.
MakersBalanceDone ==
    /\ pc = "m_balance"
    /\ \E ans \in BalanceAnswers :
          IF GetSolBalance(ans).raised
          THEN /\ pc' = "m_pause"
               /\ mrun' = Threw("rpc", "balance")
          ELSE /\ pc' = "m_loop"
               /\ UNCHANGED mrun
    /\ UNCHANGED << now, sessionVars, cache, attemptVars, totalMakersRequired, stats,
                    volumeVars, swapVars, fund, tbal >>

\* catch: log, await this.wait(5000).  The error is gone when the block ends.
MakersPauseDone ==
    /\ pc = "m_pause"
    /\ now' = now + MakersCatchPause
    /\ pc' = "m_loop"
    /\ mrun' = [ mrun EXCEPT !.error = "none", !.joined = 0 ]
    /\ UNCHANGED << sessionVars, cache, attemptVars, totalMakersRequired, stats,
                    volumeVars, swapVars, fund, tbal >>

\* The promise of a finished makers call has resolved: the caller goes on and
\* may call makers again on the same object.
MakersReturn ==
    /\ pc = "m_returned"
    /\ mrun.call < MaxCalls
    /\ pc' = "idle"
    /\ UNCHANGED << now, sessionVars, cache, attemptVars, makersVars, volumeVars, swapVars, fund, tbal >>


(***************************************************************************)
(* volume(mint, minSolPerSwap, maxSolPerSwap, mCapFactor, speedFactor)     *)
(*                                                                         *)
(* vin.minSolPerSwap and vin.maxSolPerSwap are in 1/Fine lamports, so that *)
(* a bound need not be a whole number of lamports; mCapFactor is the       *)
(* fraction vin.mCapNum / vin.mCapDen.                                     *)
(***************************************************************************)
NoCall ==
    [ minSolPerSwap |-> 0, maxSolPerSwap |-> 0, mCapNum |-> 1, mCapDen |-> 1,
      speedFactor |-> 1 ]

NoIter ==
    [ n |-> 0, net0 |-> 0, real0 |-> 0, count0 |-> 0, trades0 |-> 0,
      decided |-> FALSE, trig |-> FALSE, requested |-> FALSE, outcome |-> "none",
      error |-> "none", buys |-> 0,
      sleepKind |-> "none", sleepNum |-> 0, sleepDen |-> 1 ]

\* The number of buys decided in a row with a positive net volume, after one
\* more decision made with net volume net.
BuysInRow(buys, shouldSell, net) ==
    IF shouldSell \/ net <= 0 THEN 0 ELSE buys + 1

\* Math.floor(Math.random() * 3) + 1
RandomCountdownWide(rn) == (4 * rn) \div RandDen + 1

RandomCountdown(rn) == (3 * rn) \div RandDen + 1

\* Math.random() < 0.3
RandomTrigger(rn) == 10 * rn < 3 * RandDen

\* shouldSell = (tradesUntilNextSell <= 0 || Math.random() < 0.3) && totalNetVolume > 0
ShouldSellAnyNet(t, trig, net) == (t <= 0 \/ trig) /\ net >= 0

ShouldSell(t, trig, net) == (t <= 0 \/ trig) /\ net > 0

\* maxSellPercentage = 1 / mCapFactor
\* sellPercentage = 0.5 + Math.random() * 0.5 * maxSellPercentage
\*                = (RandDen * mCapNum + rn * mCapDen) / (2 * RandDen * mCapNum)
\* amount = Math.floor(totalNetVolume * sellPercentage * 1e9)
SellAmountFullSpread(net, rn, mn, md) ==
    (net * (RandDen * mn + 2 * rn * md)) \div (2 * RandDen * mn)

SellAmount(net, rn, mn, md) ==
    (net * (RandDen * mn + rn * md)) \div (2 * RandDen * mn)

\* amount = Math.floor((Math.random() * (maxSolPerSwap - minSolPerSwap) + minSolPerSwap) * 1e9)
BuyAmountNoMin(rn, minF, maxF) ==
    (rn * (maxF - minF)) \div (RandDen * Fine)

BuyAmount(rn, minF, maxF) ==
    (rn * (maxF - minF) + minF * RandDen) \div (RandDen * Fine)

\* tradesUntilNextSell--
BuyCountdownKept(t) == t

BuyCountdown(t) == t - 1

\* totalNetVolume += solAmount / totalNetVolume -= solAmount
NetAfterSwapped(net, dir, amt) == IF dir = "buy" THEN net - amt ELSE net + amt

NetAfterAlwaysAdd(net, dir, amt) == net + amt

NetAfter(net, dir, amt) == IF dir = "buy" THEN net + amt ELSE net - amt

\* baseDelay = 5000 + Math.random() * 10000; adjustedDelay = baseDelay / speedFactor
PacingDelayUnscaled(rn, speed) ==
    [ num |-> BaseDelayMs * RandDen + DelaySpreadMs * rn, den |-> RandDen ]

PacingDelay(rn, speed) ==
    [ num |-> BaseDelayMs * RandDen + DelaySpreadMs * rn, den |-> RandDen * speed ]

\* if (!this.blockhash || Date.now() - this.lastBlockhashRefresh >= 60_000)
VolumeNeedsRefreshLate ==
    \/ blockhash = 0
    \/ now - lastBlockhashRefresh > VolumeRefreshMs

VolumeNeedsRefresh ==
    \/ blockhash = 0
    \/ now - lastBlockhashRefresh >= VolumeRefreshMs

\* The catch block is entered with err: it is logged and wait(5000) is called.
Thrown(it, err) ==
    [ it EXCEPT !.outcome = "throw", !.error = err, !.sleepKind = "error",
                !.sleepNum = ErrorPauseMs, !.sleepDen = 1 ]

\* After the response test: the pacing delay is drawn and wait() is called.
Pacing(it, rn) ==
    [ it EXCEPT !.sleepKind = "pacing",
                !.sleepNum = PacingDelay(rn, vin.speedFactor).num,
                !.sleepDen = PacingDelay(rn, vin.speedFactor).den ]

\* await this.wait(5000) in the catch block: the time that passes.
VolumeCatchPauseNone == Elapsed(0, 1)

VolumeCatchPause == Elapsed(ErrorPauseMs, 1)

\* The call: options are read, the locals are initialised, control is at while (true).
CallVolume ==
    /\ pc = "idle"
    /\ \E minF \in SolFines, maxF \in SolFines,
          m \in { <<1, 1>>, <<MaxMcap, 1>>, <<1, MaxMcap>> }, speed \in Speeds :
          /\ minF <= maxF
          /\ vin' = [ minSolPerSwap |-> minF, maxSolPerSwap |-> maxF,
                      mCapNum |-> m[1], mCapDen |-> m[2], speedFactor |-> speed ]
    /\ totalNetVolume' = 0
    /\ totalRealVolume' = 0
    /\ \E rn \in Rand : tradesUntilNextSell' = RandomCountdown(rn)
    /\ tradeCount' = 0
    /\ direction' = "none"
    /\ amount' = 0
    /\ vit' = NoIter
    /\ cache' = [ cache EXCEPT !.own = FALSE, !.acked = 0, !.submitted = 0 ]
    /\ pc' = "v_loop"
    /\ UNCHANGED << now, sessionVars, attemptVars, makersVars, swapVars, fund, tbal >>

\* From Keypair.generate() to the call of swapVolume, with the recent-block value
\* h: the signer is generated, direction, amount and countdown are decided, then
\* the funding transaction is built (createVtxWithOnlyMainSigner throws on an
\* unusable value) and swapVolume is called.
VolumeDecide(it, h) ==
    \E rt \in Rand, ra \in Rand, rc \in Rand :
        LET trig == RandomTrigger(rt)
            shouldSell == ShouldSell(tradesUntilNextSell, trig, totalNetVolume)
            it2 == [ it EXCEPT !.decided = TRUE, !.trig = trig,
                               !.buys = BuysInRow(it.buys, shouldSell, totalNetVolume) ]
        IN  /\ direction' = IF shouldSell THEN "sell" ELSE "buy"
            /\ amount' = IF shouldSell
                         THEN SellAmount(totalNetVolume, ra, vin.mCapNum, vin.mCapDen)
                         ELSE BuyAmount(ra, vin.minSolPerSwap, vin.maxSolPerSwap)
            /\ tradesUntilNextSell' = IF shouldSell
                                      THEN RandomCountdown(rc)
                                      ELSE BuyCountdown(tradesUntilNextSell)
            /\ keys' = keys + 1
            /\ IF InvalidBlockhash(h)
               THEN /\ pc' = "v_pause"
                    /\ vit' = Thrown(it2, "invalidblockhash")
                    /\ attempt' = NoAttempt
               ELSE /\ pc' = "v_swap"
                    /\ vit' = [ it2 EXCEPT !.requested = TRUE ]
                    /\ attempt' = [ Build(keys, 1, h)
                                       EXCEPT !.quote = SwapVolumeQuote(direction', amount') ]

\* The top of while (true): the try block runs to its first await, the RPC call
\* of a refresh or the swapVolume call.
VolumeLoop ==
    /\ pc = "v_loop"
    /\ vit.n < MaxIter
    /\ LET it == [ NoIter EXCEPT !.n = vit.n + 1, !.buys = vit.buys,
                                 !.net0 = totalNetVolume,
                                 !.real0 = totalRealVolume, !.count0 = tradeCount,
                                 !.trades0 = tradesUntilNextSell ]
       IN  IF VolumeNeedsRefresh
           THEN /\ pc' = "v_refresh"
                /\ vit' = it
                /\ UNCHANGED << direction, amount, tradesUntilNextSell, attemptVars >>
           ELSE VolumeDecide(it, blockhash)
    /\ UNCHANGED << now, sessionVars, cache, makersVars, swapVars, fund, tbal, vin, totalNetVolume,
                    totalRealVolume, tradeCount >>

\* getLatestBlockhash settles: the answer is stored with Date.now() as the marker
\* and the iteration goes on; a rejection goes to the catch block.
VolumeRefreshDone ==
    /\ pc = "v_refresh"
    /\ \/ \E h \in 0 .. MaxHash :
            /\ blockhash' = h
            /\ lastBlockhashRefresh' = now
            /\ cache' = [ Written("volume") EXCEPT !.own = TRUE, !.at = now ]
            /\ VolumeDecide(vit, h)
       \/ /\ pc' = "v_pause"
          /\ vit' = Thrown(vit, "rpc")
          /\ UNCHANGED << blockhash, lastBlockhashRefresh, cache, direction, amount,
                          tradesUntilNextSell, attemptVars >>
    /\ UNCHANGED << now, initPending, makersVars, swapVars, fund, tbal, vin, totalNetVolume,
                    totalRealVolume, tradeCount >>

\* swapVolume settles: with the signed swap transaction the bundle is serialized
\* and sendBundle is called; a thrown error goes to the catch block.
VolumeSwapDone ==
    /\ pc = "v_swap"
    /\ \E res \in SwapResults :
          IF res = "ok"
          THEN /\ pc' = "v_send"
               /\ attempt' = [ Posted(Serialized(attempt, << SwapTransaction(attempt.reqs[1]) >>))
                                 EXCEPT !.done = 1 ]
               /\ UNCHANGED vit
          ELSE /\ pc' = "v_pause"
               /\ attempt' = NoAttempt
               /\ vit' = Thrown(vit, res)
    /\ UNCHANGED << now, sessionVars, cache, keys, makersVars, swapVars, fund, tbal, vin, totalNetVolume,
                    totalRealVolume, tradesUntilNextSell, tradeCount, direction,
                    amount >>

\* sendBundle settles: with a result the counters are updated and getSolBalance
\* is called; without one the pacing sleep starts; a rejection goes to the catch
\* block.
VolumeSendDone ==
    /\ pc = "v_send"
    /\ \/ /\ tradeCount' = tradeCount + 1
          /\ totalNetVolume' = NetAfter(totalNetVolume, direction, amount)
          /\ totalRealVolume' = totalRealVolume + amount
          /\ vit' = [ vit EXCEPT !.outcome = "ack" ]
          /\ pc' = "v_balance"
          /\ attempt' = NoAttempt
       \/ /\ \E rd \in Rand :
                vit' = Pacing([ vit EXCEPT !.outcome = "nack" ], rd)
          /\ pc' = "v_sleep"
          /\ attempt' = NoAttempt
          /\ UNCHANGED << tradeCount, totalNetVolume, totalRealVolume >>
       \/ /\ IF SendBundleRetries("neterr")
             THEN /\ attempt.posts <= 1
                  /\ attempt' = Posted(attempt)
                  /\ UNCHANGED << pc, vit >>
             ELSE /\ vit' = Thrown(vit, "relay")
                  /\ pc' = "v_pause"
                  /\ attempt' = NoAttempt
          /\ UNCHANGED << tradeCount, totalNetVolume, totalRealVolume >>
    /\ UNCHANGED << now, sessionVars, cache, keys, makersVars, swapVars, fund, tbal, vin,
                    tradesUntilNextSell, direction, amount >>

\* getSolBalance settles (it returns 0 when the RPC fails), the trade is logged,
\* the pacing sleep starts.
VolumeBalanceDone ==
    /\ pc = "v_balance"
    /\ \E ans \in BalanceAnswers :
          IF GetSolBalance(ans).raised
          THEN /\ pc' = "v_pause"
               /\ vit' = Thrown(vit, "balance")
          ELSE /\ pc' = "v_sleep"
               /\ \E rd \in Rand : vit' = Pacing(vit, rd)
    /\ UNCHANGED << now, sessionVars, cache, attemptVars, makersVars, swapVars, fund, tbal, vin, totalNetVolume,
                    totalRealVolume, tradesUntilNextSell, tradeCount, direction,
                    amount >>

\* The iteration is over: its locals are gone; what is kept of it is how it ended.
Ended(it) ==
    [ NoIter EXCEPT !.n = it.n, !.outcome = it.outcome, !.sleepKind = it.sleepKind,
                    !.buys = it.buys ]

\* The pacing sleep ends: the next iteration starts.
VolumeSleepDone ==
    /\ pc = "v_sleep"
    /\ now' = now + Elapsed(vit.sleepNum, vit.sleepDen)
    /\ pc' = "v_loop"
    /\ vit' = Ended(vit)
    /\ direction' = "none"
    /\ amount' = 0
    /\ UNCHANGED << sessionVars, cache, attemptVars, makersVars, swapVars, fund, tbal, vin, totalNetVolume,
                    totalRealVolume, tradesUntilNextSell, tradeCount >>

\* catch: the 5000 ms pause ends: the next iteration starts.
VolumePauseDone ==
    /\ pc = "v_pause"
    /\ now' = now + VolumeCatchPause
    /\ pc' = "v_loop"
    /\ vit' = Ended(vit)
    /\ direction' = "none"
    /\ amount' = 0
    /\ UNCHANGED << sessionVars, cache, attemptVars, makersVars, swapVars, fund, tbal, vin, totalNetVolume,
                    totalRealVolume, tradesUntilNextSell, tradeCount >>

(***************************************************************************)
(* swap(mint, direction, amount, options)                                  *)
(*                                                                         *)
(* amount is kept in lamports (the code passes amount * 1e9 to swapVolume).*)
(* The two requests of swapVolume (quote, swap transaction) are two steps. *)
(***************************************************************************)
\* The j-th entry of JITO_ACCOUNTS and the u-th entry of JITO_URLS.
JitoAccount(j) == [ kind |-> "jito", id |-> j ]
JitoUrl(u) == [ kind |-> "url", id |-> u ]

\* No entry chosen yet.
NoChoice == [ kind |-> "none", id |-> 0 ]

\* bundleResponse.error: absent (or another falsy value), or a string.
NoError == ""
RelayErrors == {"x", "y"}

\* The JSON bodies the relay can answer with: result and error, each present or
\* not.  "null" is a body without fields.
RelayResponses ==
    [ result : BundleIds \cup {NoBundle}, error : RelayErrors \cup {NoError} ]

\* if (bundleResponse && bundleResponse.result)
AcknowledgedAlways(resp) == TRUE

Acknowledged(resp) == resp.result # NoBundle

\* new Error("Swap failed: " + (bundleResponse.error || "Unknown error")): the
\* message, as the two strings that are concatenated.
SwapFailedMessageGeneric(resp) == << "Swap failed: ", "Unknown error" >>

SwapFailedMessage(resp) ==
    << "Swap failed: ", IF resp.error = NoError THEN "Unknown error" ELSE resp.error >>

\* The message msg contains the string e.
Contains(msg, e) == \E k \in 1 .. Len(msg) : msg[k] = e

\* The aggregator's answer to the quote request has no route:
\* if (!data.data || data.data.length === 0)
NoRoutesNever(routes) == FALSE

NoRoutes(routes) == routes <= 0

\* What the relay answered with no answer yet, or none at all.
NoResponse == [ result |-> NoBundle, error |-> NoError ]

\* History of one swap call: `call` is its index on the object, `hash0` the
\* cached value at entry, `fetches`, `quotes`, `builds` and `sends` count the
\* requests it made (recent-block value, quote, swap transaction, bundle),
\* `routes` is the number of routes of the quote (-1: none received),
\* `received` says what came back from the relay ("none", "json", "null",
\* "neterr") and `response` is the body, `error` is the message of the error
\* swap rejected with.  `tipAccount` and `url` are the relay account and the
\* relay endpoint last chosen by a swap call on the object.
NoSwapRun ==
    [ call |-> 0, hash0 |-> 0, fetches |-> 0, quotes |-> 0, builds |-> 0,
      sends |-> 0, routes |-> -1, received |-> "none", response |-> NoResponse,
      error |-> << >>, tipAccount |-> NoChoice, url |-> NoChoice ]

\* getRandomJitoAccount(): JITO_ACCOUNTS[Math.floor(Math.random() * length)]
GetRandomJitoAccount(rn) == JitoAccount((rn * JitoAccounts) \div RandDen + 1)

\* getRandomJitoUrl(): JITO_URLS[Math.floor(Math.random() * length)]
GetRandomJitoUrlSticky(rn) ==
    IF srun.url.kind = "url" THEN srun.url
    ELSE JitoUrl((rn * JitoUrls) \div RandDen + 1)

GetRandomJitoUrl(rn) == JitoUrl((rn * JitoUrls) \div RandDen + 1)

\* swap rejects with the error msg.
SwapRejects(run, msg) ==
    /\ pc' = "s_rejected"
    /\ attempt' = NoAttempt
    /\ srun' = [ run EXCEPT !.error = msg ]

\* if (!this.blockhash): the lazy fetch of swap.
SwapNeedsFetchWhenStale == blockhash = 0 \/ now > StartTime

SwapNeedsFetch == blockhash = 0

\* The try block up to the first await of swapVolume, with the recent-block
\* value h: the funding transaction is built (the relay account is chosen, then
\* createVtxWithOnlyMainSigner throws
\* on an unusable value; the catch block logs and throws again), then swapVolume
\* is called and requests the quote.
SwapTry(run, signers, h) ==
    \E rn \in Rand :
       LET tipped == [ run EXCEPT !.tipAccount = GetRandomJitoAccount(rn) ]
       IN  IF InvalidBlockhash(h)
           THEN SwapRejects(tipped, << "invalidblockhash" >>)
           ELSE /\ pc' = "s_quote"
                /\ attempt' = [ Fund(signers, h)
                                   EXCEPT !.quote = SwapVolumeQuote(direction', amount') ]
                /\ srun' = [ tipped EXCEPT !.quotes = @ + 1 ]

\* The call: the signer is generated; without a cached value initializeBlockhash
\* is called and awaited, otherwise the try block runs to the quote request.
CallSwap ==
    /\ pc = "idle"
    /\ \E d \in {"buy", "sell"}, a \in 0 .. MaxSwapAmount :
          /\ direction' = d
          /\ amount' = a
    /\ keys' = keys + 1
    /\ LET run == [ NoSwapRun EXCEPT !.call = srun.call + 1, !.hash0 = blockhash,
                                      !.tipAccount = srun.tipAccount, !.url = srun.url ]
       IN  IF SwapNeedsFetch
           THEN /\ pc' = "s_init"
                /\ attempt' = [ NoAttempt EXCEPT !.signers = Generate(keys, 1) ]
                /\ srun' = [ run EXCEPT !.fetches = @ + 1 ]
           ELSE SwapTry(run, Generate(keys, 1), blockhash)
    /\ UNCHANGED << now, sessionVars, cache, makersVars, vin, totalNetVolume,
                    totalRealVolume, tradesUntilNextSell, tradeCount, vit, fund, tbal >>

\* The initializeBlockhash() call of swap settles: the answer is stored with
\* marker 0; a rejection rejects swap (the await is outside the try block).
SwapInitDone ==
    /\ pc = "s_init"
    /\ \/ \E h \in 0 .. MaxHash :
            /\ blockhash' = h
            /\ lastBlockhashRefresh' = 0
            /\ cache' = Written("init")
            /\ pc' = "s_resume"
            /\ UNCHANGED << attempt, srun >>
       \/ /\ SwapRejects(srun, << "rpc" >>)
          /\ UNCHANGED << blockhash, lastBlockhashRefresh, cache >>
    /\ UNCHANGED << now, initPending, keys, makersVars, volumeVars, fund, tbal >>

\* swap resumes after the await: the try block runs to the quote request.
SwapResume ==
    /\ pc = "s_resume"
    /\ UNCHANGED << now, sessionVars, cache, keys, makersVars, volumeVars, fund, tbal >>
    /\ SwapTry(srun, attempt.signers, blockhash)

\* The quote request of swapVolume settles: with a route the swap transaction is
\* requested; without one "No routes found" is thrown; a network error rejects.
SwapQuoteDone ==
    /\ pc = "s_quote"
    /\ \/ \E routes \in 0 .. MaxRoutes :
            LET run == [ srun EXCEPT !.routes = routes ]
            IN  IF NoRoutes(routes)
                THEN SwapRejects(run, << "noroute" >>)
                ELSE /\ pc' = "s_build"
                     /\ srun' = [ run EXCEPT !.builds = @ + 1 ]
                     /\ UNCHANGED attempt
       \/ SwapRejects(srun, << "neterr" >>)
    /\ UNCHANGED << now, sessionVars, cache, keys, makersVars, volumeVars, fund, tbal >>

\* The swap-transaction request settles: with a transaction swapVolume signs and
\* returns it, the bundle is serialized and sendBundle is called; without one
\* "Failed to get swap transaction" is thrown; a network error rejects.
SwapBuildDone ==
    /\ pc = "s_build"
    /\ \E res \in {"ok", "noswaptx", "neterr"}, rn \in Rand :
          IF res = "ok"
          THEN /\ pc' = "s_send"
               /\ attempt' = [ Posted(Serialized(attempt, << SwapTransaction(attempt.reqs[1]) >>))
                                 EXCEPT !.done = 1 ]
               /\ srun' = [ srun EXCEPT !.sends = @ + 1, !.url = GetRandomJitoUrl(rn) ]
          ELSE SwapRejects(srun, << res >>)
    /\ UNCHANGED << now, sessionVars, cache, keys, makersVars, volumeVars, fund, tbal >>

\* sendBundle settles: with a result swap resolves; without one "Swap failed" is
\* thrown with the relay's error; reading .error of a body without fields throws
\* a TypeError; a network error rejects.  The catch block logs and throws again.
SwapSendDone ==
    /\ pc = "s_send"
    /\ \/ \E resp \in RelayResponses :
            LET run == [ srun EXCEPT !.received = "json", !.response = resp ]
            IN  IF Acknowledged(resp)
                THEN /\ pc' = "s_returned"
                     /\ attempt' = NoAttempt
                     /\ srun' = run
                ELSE SwapRejects(run, SwapFailedMessage(resp))
       \/ SwapRejects([ srun EXCEPT !.received = "null" ], << "typeerror" >>)
       \/ IF SendBundleRetries("neterr")
          THEN /\ attempt.posts <= 1
               /\ attempt' = Posted(attempt)
               /\ UNCHANGED << pc, srun >>
          ELSE SwapRejects([ srun EXCEPT !.received = "neterr" ], << "neterr" >>)
    /\ UNCHANGED << now, sessionVars, cache, keys, makersVars, volumeVars, fund, tbal >>

\* The promise of swap has settled: the caller goes on and may call swap again
\* on the same object.
SwapReturn ==
    /\ pc \in {"s_returned", "s_rejected"}
    /\ srun.call < MaxCalls
    /\ pc' = "idle"
    /\ UNCHANGED << now, sessionVars, cache, attemptVars, makersVars, volumeVars,
                    swapVars, fund, tbal >>

\* Time passes between two calls.
Tick ==
    /\ pc = "idle"
    /\ srun.call >= 1
    /\ now < StartTime + MaxIdleTicks * ClockStep
    /\ now' = now + ClockStep
    /\ UNCHANGED << pc, sessionVars, cache, attemptVars, makersVars, volumeVars,
                    swapVars, fund, tbal >>

(***************************************************************************)
(* createFundTx(pubkeys, jitoTipLamports, blockhash) and                   *)
(* createFundSingleTx(pubkey, jitoTipLamports, blockhash)                  *)
(*                                                                         *)
(* An integer of up to 64 bits is kept as its 4 digits in base WordBase,   *)
(* least significant first.  A public key is a record: the payer, the k-th *)
(* generated key, the j-th relay account, a fee account, the system        *)
(* program.                                                                *)
(***************************************************************************)
WordBase == 65536
ByteBase == 256
TipWords == 4               \* digits of a tip in base WordBase
TipBytes == 8               \* toArrayLike(Buffer, "le", 8)
PayloadBytes == 9           \* Buffer.alloc(9)
FundTag == 0                \* instructionData[0] = 0 in createFundTx
FundSingleTag == 3          \* instructionData[0] = 3 in createFundSingleTx
WordBits == 16              \* WordBase = 2^WordBits
SafeBits == 53              \* significant bits of a number (IEEE 754 double)
UnitLimit == 600000         \* setComputeUnitLimit({ units: 600_000 })

\* Math.floor((10000 * 1_000_000) / 600_000), with 100 000 cancelled.
UnitPrice == (10000 * 10) \div 6

Payer == [ kind |-> "payer", id |-> 0 ]
Ephemeral(k) == [ kind |-> "ephemeral", id |-> k ]
FeeAccount(j) == [ kind |-> "fee", id |-> j ]
SystemProgramId == [ kind |-> "system", id |-> 0 ]

\* The integer n < WordBase^2 as a tip.
Words(hi, lo) == << lo, hi, 0, 0 >>

\* The number of bits of w.
BitLen(w) == CHOOSE b \in 0 .. WordBits : w < 2^b /\ (b = 0 \/ w >= 2^(b - 1))

\* t + c * WordBase^(k-1), digits from k on.
RECURSIVE Carry(_, _, _)
Carry(t, k, c) ==
    IF k > Len(t) \/ c = 0
    THEN t
    ELSE Carry([ t EXCEPT ![k] = (t[k] + c) % WordBase ], k + 1,
               (t[k] + c) \div WordBase)

\* The parameter jitoTipLamports is a number: the integer t arrives as the
\* nearest double, which keeps SafeBits significant bits (ties to even).
AsNumber(t) ==
    LET d == BitLen(t[TipWords]) + (TipWords - 1) * WordBits - SafeBits
    IN  IF d <= 0
        THEN t
        ELSE LET q == t[1] \div 2^d
                 r == t[1] % 2^d
                 up == IF r > 2^(d - 1) \/ (r = 2^(d - 1) /\ q % 2 = 1) THEN 1 ELSE 0
             IN  Carry([ t EXCEPT ![1] = 0 ], 1, (q + up) * 2^d)

\* t is below 2^53, where new BN(number) is defined.
IsSafe(t) == BitLen(t[TipWords]) + (TipWords - 1) * WordBits <= SafeBits

\* toArrayLike(Buffer, "le", 8): the bytes of t, least significant first.
LittleEndianBytes(t) ==
    [ i \in 1 .. TipBytes |->
        LET w == t[(i + 1) \div 2]
        IN  IF i % 2 = 1 THEN w % ByteBase ELSE w \div ByteBase ]

\* instructionData: Buffer.alloc(9), the tag in byte 0, the 8 bytes of the tip
\* copied from byte 1 on.
InstructionData(tag, t) ==
    [ i \in 1 .. PayloadBytes |-> IF i = 1 THEN tag ELSE LittleEndianBytes(t)[i - 1] ]

\* Bytes 1..8 of the payload read as an unsigned 64-bit little-endian integer.
DecodeTip(data) ==
    [ k \in 1 .. TipWords |-> data[2 * k] + ByteBase * data[2 * k + 1] ]

Meta(key, signer, writable) ==
    [ pubkey |-> key, isSigner |-> signer, isWritable |-> writable ]

\* The account list of the funding instruction.
FundAccountsTipLast(pubkeys, jito) ==
    << Meta(Payer, TRUE, TRUE) >>
    \o [ i \in 1 .. Len(pubkeys) |-> Meta(Ephemeral(pubkeys[i]), FALSE, TRUE) ]
    \o << Meta(FeeAccount(1), FALSE, TRUE),
          Meta(FeeAccount(2), FALSE, TRUE),
          Meta(jito, FALSE, TRUE),
          Meta(SystemProgramId, FALSE, FALSE) >>

FundAccounts(pubkeys, jito) ==
    << Meta(Payer, TRUE, TRUE) >>
    \o [ i \in 1 .. Len(pubkeys) |-> Meta(Ephemeral(pubkeys[i]), FALSE, TRUE) ]
    \o << Meta(jito, FALSE, TRUE),
          Meta(FeeAccount(1), FALSE, TRUE),
          Meta(FeeAccount(2), FALSE, TRUE),
          Meta(SystemProgramId, FALSE, FALSE) >>

\* getComputeBudgetInstructions()
GetComputeBudgetInstructions ==
    << [ program |-> "ComputeBudget", name |-> "setComputeUnitPrice",
         value |-> UnitPrice ],
       [ program |-> "ComputeBudget", name |-> "setComputeUnitLimit",
         value |-> UnitLimit ] >>

\* The funding instruction.
FundInstruction(tag, pubkeys, t, jito) ==
    [ program |-> "AMM", keys |-> FundAccounts(pubkeys, jito),
      data |-> InstructionData(tag, t) ]

\* createVtxWithOnlyMainSigner(ixs, wallet, blockhash) with a usable blockhash:
\* the message is paid by wallet and the transaction is signed by wallet only.
CreateVtxSignedByFirstKeys(ixs, wallet, h) ==
    [ payerKey |-> wallet, instructions |-> ixs, recentBlockhash |-> h,
      signedBy |-> { wallet, ixs[Len(ixs)].keys[2].pubkey } ]

CreateVtxWithOnlyMainSigner(ixs, wallet, h) ==
    [ payerKey |-> wallet, instructions |-> ixs, recentBlockhash |-> h,
      signedBy |-> { wallet } ]

\* The accounts whose signature the message requires: its payer and the
\* accounts that an instruction marks as signers.
RequiredSigners(tx) ==
    { tx.payerKey } \cup
    UNION { { ix.keys[i].pubkey : i \in { i \in 1 .. Len(ix.keys) : ix.keys[i].isSigner } } :
            ix \in { tx.instructions[k] :
                       k \in { k \in 1 .. Len(tx.instructions) :
                                 tx.instructions[k].program = "AMM" } } }

\* The tag of the path that funds n accounts.
TagOf(n) == IF n = MakersPerBundle THEN FundTag ELSE FundSingleTag

\* createFundTx (n = 4) / createFundSingleTx (n = 1) with usable arguments.
CreateFundTx(pubkeys, t, h, rn) ==
    CreateVtxWithOnlyMainSigner(
        GetComputeBudgetInstructions
        \o << FundInstruction(TagOf(Len(pubkeys)), pubkeys, t, GetRandomJitoAccount(rn)) >>,
        Payer, h)

\* The tips explored: small ones, the defaults of the workflows (100 000 and
\* 1 000 000 lamports), and tips around 2^16, 2^32, 2^48, 2^53 and 2^63.
TipSamples ==
    { Words(1, 34464), Words(15, 16960) } \cup
    { << w1, w2, w3, w4 >> : w1 \in {0, 1, 2, 255, 256, 65535}, w2 \in {0, 65535},
                             w3 \in {0, 1, 65535},
                             w4 \in {0, 31, 32, 33, 32767} }

\* options.jitoTipLamports as the caller gives it: absent, NaN, or a number.
Unset == [ kind |-> "unset", value |-> Words(0, 0) ]
TipOptions ==
    { Unset, [ kind |-> "nan", value |-> Words(0, 0) ] }
    \cup { [ kind |-> "number", value |-> t ] : t \in TipSamples }

\* 0.0001 * 1e9 in makers, 0.001 * 1e9 in volume and swap.
DefaultTip(workflow) ==
    IF workflow = "makers" THEN Words(1, 34464) ELSE Words(15, 16960)

\* const jitoTipLamports = options.jitoTipLamports || <default>: the default
\* replaces every falsy value (undefined, NaN, 0).
JitoTipLamportsNullish(workflow, option) ==
    IF option.kind = "unset" THEN DefaultTip(workflow) ELSE option.value

JitoTipLamports(workflow, option) ==
    IF option.kind # "number" \/ option.value = Words(0, 0)
    THEN DefaultTip(workflow)
    ELSE option.value

\* makers funds MakersPerBundle accounts with createFundTx, volume and swap one
\* account with createFundSingleTx.
Recipients(workflow) == IF workflow = "makers" THEN MakersPerBundle ELSE 1

NoFund ==
    [ stage |-> "none", workflow |-> "none", option |-> Unset, recipients |-> 0,
      tip |-> Words(0, 0), blockhash |-> 0, error |-> "none", tx |-> << >> ]

\* A workflow called with options.jitoTipLamports = option asks for its funding
\* transaction: its recipients, its tip, a recent-block value.
FundCall ==
    /\ pc = "idle"
    /\ fund.stage = "none"
    /\ \E w \in {"makers", "volume", "swap"}, option \in TipOptions, h \in 0 .. MaxHash :
          fund' = [ NoFund EXCEPT !.stage = "called", !.workflow = w, !.option = option,
                                  !.recipients = Recipients(w),
                                  !.tip = JitoTipLamports(w, option),
                                  !.blockhash = h ]
    /\ UNCHANGED << pc, now, sessionVars, cache, attemptVars, makersVars, volumeVars,
                    swapVars, tbal >>

\* The body of createFundTx / createFundSingleTx.  The tip is a number; new BN
\* of a number of 2^53 or more is outside what the library defines for numbers:
\* it either throws or takes the number as it is.  createVtxWithOnlyMainSigner
\* throws on an unusable recent-block value.
FundBuild ==
    /\ pc = "idle"
    /\ fund.stage = "called"
    /\ \E rn \in Rand, bn \in {"takes", "throws"} :
          LET number == AsNumber(fund.tip)
          IN  IF ~IsSafe(number) /\ bn = "throws"
              THEN fund' = [ fund EXCEPT !.stage = "thrown", !.error = "bn" ]
              ELSE IF InvalidBlockhash(fund.blockhash)
              THEN fund' = [ fund EXCEPT !.stage = "thrown",
                                         !.error = "invalidblockhash" ]
              ELSE fund' = [ fund EXCEPT !.stage = "built",
                                !.tx = CreateFundTx(Generate(0, fund.recipients),
                                                    number, fund.blockhash, rn) ]
    /\ UNCHANGED << pc, now, sessionVars, cache, attemptVars, makersVars, volumeVars,
                    swapVars, tbal >>

(***************************************************************************)
(* Specifications: the object after construction, then one workflow call   *)
(* (SpecMakers, SpecVolume, Spec), a sequence of makers calls              *)
(* (SpecSession), a sequence of swap calls (SpecSwapSession), or one       *)
(* funding-transaction build (SpecFund).                                   *)
(***************************************************************************)
Init ==
    /\ SessionInit
    /\ cache = NoCache
    /\ keys = 0
    /\ attempt = NoAttempt
    /\ pc = "idle"
    /\ totalMakersRequired = 0
    /\ stats = NewStats(0)
    /\ mrun = NewRun
    /\ vin = NoCall
    /\ totalNetVolume = 0
    /\ totalRealVolume = 0
    /\ tradesUntilNextSell = 0
    /\ tradeCount = 0
    /\ direction = "none"
    /\ amount = 0
    /\ vit = NoIter
    /\ srun = NoSwapRun
    /\ fund = NoFund
    /\ tbal = NoBalanceCall

NextMakers ==
    \/ InitializeBlockhashDone
    \/ CallMakers
    \/ MakersLoop
    \/ MakersRefreshDone
    \/ MakersSwapsDone
    \/ MakersSendDone
    \/ MakersBalanceDone
    \/ MakersPauseDone

NextVolume ==
    \/ InitializeBlockhashDone
    \/ CallVolume
    \/ VolumeLoop
    \/ VolumeRefreshDone
    \/ VolumeSwapDone
    \/ VolumeSendDone
    \/ VolumeBalanceDone
    \/ VolumeSleepDone
    \/ VolumePauseDone

NextSwap ==
    \/ InitializeBlockhashDone
    \/ CallSwap
    \/ SwapInitDone
    \/ SwapResume
    \/ SwapQuoteDone
    \/ SwapBuildDone
    \/ SwapSendDone

NextBalance ==
    \/ CallGetTokenBalance
    \/ GetTokenBalanceDone

Next ==
    \/ NextMakers
    \/ NextVolume
    \/ NextSwap
    \/ NextBalance

NextSession ==
    \/ NextMakers
    \/ MakersReturn

NextSwapSession ==
    \/ NextSwap
    \/ SwapReturn
    \/ Tick

NextFund ==
    \/ FundCall
    \/ FundBuild

SpecMakers == Init /\ [][NextMakers]_vars

\* The steps of a running makers call: the code between two awaits, run when
\* the awaited promise has settled.  Every promise it awaits settles (an RPC or
\* HTTP answer or error, the timer of wait), and a settled promise's
\* continuation is run by the event loop.
MakersStep ==
    \/ MakersLoop
    \/ MakersRefreshDone
    \/ MakersSwapsDone
    \/ MakersSendDone
    \/ MakersBalanceDone
    \/ MakersPauseDone

SpecMakersLive == Init /\ [][NextMakers]_vars /\ WF_vars(MakersStep)

SpecVolume == Init /\ [][NextVolume]_vars

Spec == Init /\ [][Next]_vars

SpecSession == Init /\ [][NextSession]_vars

SpecSwapSession == Init /\ [][NextSwapSession]_vars

SpecFund == Init /\ [][NextFund]_vars


(***************************************************************************)
(* Properties of makers, checked under SpecMakers.                         *)
(***************************************************************************)

\* C1: makers returns only when makersCompleted >= totalMakersRequired: the
\* stats it returns have finished = true and makersCompleted >=
\* totalMakersRequired, and finished is set nowhere but at the return.
C1_MakersReturnsOnlyWhenDone ==
    /\ pc = "m_returned" =>
          /\ stats.finished
          /\ stats.makersCompleted >= totalMakersRequired
    /\ stats.finished => pc = "m_returned"

\* C1 witness: a call for 8 makers has returned after failed iterations.
C1_Witness ==
    /\ pc = "m_returned"
    /\ totalMakersRequired = 8
    /\ mrun.failures > 0

\* C2: when the aggregator always returns a route and a swap transaction and
\* the relay always acknowledges, makers(mint, 4k, {}) submits exactly k bundles
\* and returns makersCompleted = 4k, makersRemaining = 0, bundleCount = k,
\* finished = true; when the chain RPC never fails either, it runs exactly k
\* iterations.
C2_MakersAllAcknowledged ==
    ( /\ pc = "m_returned"
      /\ totalMakersRequired >= 1
      /\ totalMakersRequired % MakersPerBundle = 0 ) =>
        LET k == totalMakersRequired \div MakersPerBundle
        IN  /\ (mrun.kinds \cap {"agg", "relay"} = {}) =>
                  /\ stats.makersCompleted = 4 * k
                  /\ stats.makersRemaining = 0
                  /\ stats.bundleCount = k
                  /\ stats.finished = TRUE
                  /\ stats.latestBundleId \in BundleIds
                  /\ mrun.submitted = k
            /\ (mrun.kinds = {}) => mrun.iterations = k

\* C2 witness: makers(mint, 8, {}) has returned after 2 iterations, none failed.
C2_Witness ==
    /\ pc = "m_returned"
    /\ totalMakersRequired = 8
    /\ mrun.kinds = {}
    /\ mrun.iterations = 2
    /\ stats.bundleCount = 2

(***************************************************************************)
(* Properties of volume, checked under SpecVolume.                         *)
(***************************************************************************)
InIteration ==
    pc \in {"v_refresh", "v_swap", "v_send", "v_balance", "v_sleep", "v_pause"}

\* C3 as claimed: net-volume is never negative, for every mCapFactor > 0.
C3_NetVolumeNeverNegative == totalNetVolume >= 0

\* C3 amended: net-volume is never negative when mCapFactor >= 1.
C3_NetVolumeNonNegativeMcapAtLeastOne ==
    vin.mCapNum >= vin.mCapDen => totalNetVolume >= 0

\* C3 witness: with mCapFactor >= 1 a sell of at least 1 lamport was acknowledged.
C3_Witness ==
    /\ vin.mCapNum >= vin.mCapDen
    /\ pc = "v_balance"
    /\ direction = "sell"
    /\ amount >= 1
    /\ totalNetVolume >= 0

\* C4: every sell amount is net-volume times a fraction of at most
\* 1 / mCapFactor, so the amount handed to the swap-route client never exceeds
\* net-volume * (1 / mCapFactor) (in lamports).
C4_SellAmountWithinMcapShare ==
    (vit.requested /\ direction = "sell") =>
        amount * vin.mCapNum <= vit.net0 * vin.mCapDen

\* C5: every sell amount handed to the swap-route client is at least 1 lamport.
C5_SellAmountPositive ==
    (vit.requested /\ direction = "sell") => amount >= 1

\* C6 as claimed: every buy amount lies in [minSolPerSwap * 1e9, maxSolPerSwap * 1e9].
C6_BuyAmountWithinBounds ==
    (vit.requested /\ direction = "buy") =>
        /\ vin.minSolPerSwap <= amount * Fine
        /\ amount * Fine <= vin.maxSolPerSwap

\* C6 amended: every buy amount lies in
\* [floor(minSolPerSwap * 1e9), maxSolPerSwap * 1e9].
C6_BuyAmountWithinFlooredBounds ==
    (InIteration /\ direction = "buy") =>
        /\ vin.minSolPerSwap \div Fine <= amount
        /\ amount * Fine <= vin.maxSolPerSwap

\* C6 witness: a buy of 1 lamport is being submitted.
C6_Witness ==
    /\ pc = "v_send"
    /\ direction = "buy"
    /\ amount = 1

\* C7: the direction of an iteration is sell if and only if net-volume > 0 and
\* (the countdown is <= 0 or the 30% trigger fired), and buy otherwise; so no
\* sell is attempted at net-volume 0, and every attempt made before the first
\* acknowledged trade is a buy.
C7_SellIffNetPositiveAndDue ==
    (InIteration /\ vit.decided) =>
        /\ direction \in {"buy", "sell"}
        /\ direction = "sell" <=>
              (vit.net0 > 0 /\ (vit.trades0 <= 0 \/ vit.trig))
        /\ vit.net0 = 0 => direction = "buy"
        /\ vit.count0 = 0 => direction = "buy"

\* C7 witness: a sell decided by the 30% trigger while the countdown is positive.
C7_Witness ==
    /\ pc = "v_swap"
    /\ direction = "sell"
    /\ vit.trades0 > 0
    /\ vit.trig

\* C8 as claimed: an iteration whose trade was requested but not completed
\* leaves the countdown unchanged.
C8_CountdownUnchangedWhenNotCompleted ==
    (vit.requested /\ vit.outcome \in {"nack", "throw"}) =>
        tradesUntilNextSell = vit.trades0

\* C8 amended: the countdown is set to a value in {1,2,3} when a sell is decided
\* and decreased by exactly 1 when a buy is decided, whether or not the trade is
\* completed afterwards, and it changes at no other time.
C8_CountdownFollowsDecision ==
    /\ [](InIteration =>
            IF vit.decided
            THEN /\ direction = "sell" => tradesUntilNextSell \in 1 .. 3
                 /\ direction = "buy" => tradesUntilNextSell = vit.trades0 - 1
            ELSE tradesUntilNextSell = vit.trades0)
    /\ [][ (pc # "idle" /\ tradesUntilNextSell' # tradesUntilNextSell) =>
              (~vit.decided /\ vit'.decided) ]_vars

\* C8 witness: a buy that threw after the decision has decreased the countdown.
C8_Witness ==
    /\ pc = "v_pause"
    /\ vit.requested
    /\ direction = "buy"
    /\ tradesUntilNextSell = vit.trades0 - 1

\* C9: when the relay acknowledges, net-volume goes up by the trade size on a
\* buy and down by it on a sell, gross-volume goes up by the trade size and the
\* trade counter by 1; otherwise the three are unchanged.  Gross-volume and the
\* trade counter never decrease.
C9_AccountingOnAcknowledgement ==
    /\ [](InIteration =>
            IF vit.outcome = "ack"
            THEN /\ direction = "buy" => totalNetVolume = vit.net0 + amount
                 /\ direction = "sell" => totalNetVolume = vit.net0 - amount
                 /\ totalRealVolume = vit.real0 + amount
                 /\ tradeCount = vit.count0 + 1
            ELSE /\ totalNetVolume = vit.net0
                 /\ totalRealVolume = vit.real0
                 /\ tradeCount = vit.count0)
    /\ [][ /\ totalRealVolume' >= totalRealVolume
           /\ tradeCount' >= tradeCount
           /\ (totalNetVolume' # totalNetVolume \/ totalRealVolume' # totalRealVolume
                 \/ tradeCount' # tradeCount) => (pc = "v_send" /\ vit'.outcome = "ack")
         ]_vars

\* C9 witness: an acknowledged sell of at least 1 lamport has been accounted.
C9_Witness ==
    /\ pc = "v_balance"
    /\ vit.outcome = "ack"
    /\ direction = "sell"
    /\ amount >= 1
    /\ totalNetVolume = vit.net0 - amount
    /\ totalRealVolume = vit.real0 + amount

\* C10 as claimed: every attempt, succeeded or failed (not acknowledged, or an
\* exception), is followed by the randomized pacing sleep.
C10_EveryAttemptFollowedByPacingSleep ==
    (vit.requested /\ vit.outcome # "none" /\ pc # "v_balance") =>
        vit.sleepKind = "pacing"

\* C10 amended: every attempt that ends without an exception, acknowledged or
\* not, is followed by the pacing sleep of (5000..15000 ms) / speedFactor before
\* the next attempt; an attempt that raises an exception is followed by the
\* fixed 5000 ms pause and no pacing sleep.
C10_PacingSleepUnlessThrown ==
    /\ [](/\ pc = "v_sleep" =>
               /\ vit.outcome \in {"ack", "nack"}
               /\ vit.sleepKind = "pacing"
               /\ BaseDelayMs * vit.sleepDen <= vit.sleepNum * vin.speedFactor
               /\ vit.sleepNum * vin.speedFactor
                     < (BaseDelayMs + DelaySpreadMs) * vit.sleepDen
          /\ pc = "v_pause" =>
               /\ vit.outcome = "throw"
               /\ vit.sleepKind = "error"
               /\ vit.sleepNum = ErrorPauseMs * vit.sleepDen
          /\ (pc = "v_loop" /\ vit.n > 0) =>
               \/ vit.outcome \in {"ack", "nack"} /\ vit.sleepKind = "pacing"
               \/ vit.outcome = "throw" /\ vit.sleepKind = "error"
          /\ vit.outcome = "ack" => pc \in {"v_balance", "v_sleep", "v_loop"}
          /\ vit.outcome = "nack" => pc \in {"v_sleep", "v_loop"}
          /\ vit.outcome = "throw" => pc \in {"v_pause", "v_loop"})
    /\ [][ /\ (vit.outcome # "none" /\ vit'.outcome = "none") =>
                (pc = "v_loop" /\ vit.sleepKind # "none")
           /\ (pc \in {"v_sleep", "v_pause"} /\ pc' # pc) =>
                /\ pc' = "v_loop"
                /\ (now' - now) * vit.sleepDen >= vit.sleepNum
         ]_vars

\* C10 witness: an attempt that was not acknowledged has been followed by the
\* pacing sleep.
C10_Witness ==
    /\ pc = "v_loop"
    /\ vit.outcome = "nack"
    /\ vit.sleepKind = "pacing"

(***************************************************************************)
(* Properties of the loops and of the recent-block cache.                  *)
(***************************************************************************)
VolumePcs ==
    {"v_loop", "v_refresh", "v_swap", "v_send", "v_balance", "v_sleep", "v_pause"}

\* C11: volume never returns and never rejects: once called, control stays in
\* the loop, every state of it has a next step (up to the MaxIter iterations
\* explored), an exception in an iteration leads to the catch block, whose
\* pause lasts at least 5000 ms and is followed by the start of another
\* iteration.
C11_VolumeNeverEnds ==
    /\ []((pc \in VolumePcs /\ ~(pc = "v_loop" /\ vit.n >= MaxIter)) =>
             ENABLED (\/ VolumeLoop \/ VolumeRefreshDone \/ VolumeSwapDone
                      \/ VolumeSendDone \/ VolumeBalanceDone \/ VolumeSleepDone
                      \/ VolumePauseDone))
    /\ [][ /\ pc \in VolumePcs => pc' \in VolumePcs
           /\ (vit.outcome # "throw" /\ vit'.outcome = "throw") => pc' = "v_pause"
           /\ (pc = "v_pause" /\ pc' # pc) =>
                 /\ pc' = "v_loop"
                 /\ now' - now >= ErrorPauseMs
           /\ (pc = "v_loop" /\ pc' # pc) =>
                 /\ pc' \in {"v_refresh", "v_swap", "v_pause"}
                 /\ vit'.n = vit.n + 1
         ]_vars

\* C11 witness: the third iteration has started after two iterations that threw.
C11_Witness ==
    /\ pc = "v_swap"
    /\ vit.n = 3
    /\ tradeCount = 0
    /\ now >= StartTime + 2 * ErrorPauseMs
    /\ cache.by = "volume"

\* An iteration of makers starts in this step.
MakersIterationStarts == pc = "m_loop" /\ mrun'.iterations = mrun.iterations + 1

VolumeIterationStarts == pc = "v_loop" /\ pc' # pc

C14_EachCallRefreshesEveryTenBundles ==
    (pc \in {"m_loop", "m_refresh", "m_swaps", "m_send", "m_balance", "m_pause"}) =>
        cache.acked <= MakersRefreshBundles

(***************************************************************************)
(* Properties of the bundles, checked under Spec.                          *)
(***************************************************************************)
Requesting == pc \in {"m_swaps", "v_swap", "s_quote", "s_build"}
Sending == pc \in {"m_send", "v_send", "s_send"}

\* C15: all transactions of a submitted bundle carry the same recent-block
\* value, a usable one, and so do the swap requests in flight, also when the
\* constructor's fetch changes the cached value in between.
C15_BundleSharesOneBlockhash ==
    /\ Requesting =>
          /\ Len(attempt.txs) = 1
          /\ ~InvalidBlockhash(attempt.txs[1].recentBlockhash)
          /\ \A i \in 1 .. Len(attempt.reqs) :
                attempt.reqs[i].blockhash = attempt.txs[1].recentBlockhash
    /\ Sending =>
          /\ ~InvalidBlockhash(attempt.txs[1].recentBlockhash)
          /\ \A i \in 1 .. Len(attempt.txs) :
                attempt.txs[i].recentBlockhash = attempt.txs[1].recentBlockhash

\* C15 witness: a makers bundle is being sent while the cached value has been
\* changed by the constructor's fetch since the bundle was built.
C15_Witness ==
    /\ pc = "m_send"
    /\ Len(attempt.txs) = MakersPerBundle + 1
    /\ blockhash # attempt.txs[1].recentBlockhash

\* C16: a submitted bundle is the funding transaction followed by the swap
\* transactions (4 in makers, 1 in volume and swap); the funded accounts are
\* distinct and are the signers of the swap transactions, the i-th swap
\* transaction being signed by the i-th funded account.
C16_BundleIsFundingThenSwaps ==
    Sending =>
        LET n == IF pc = "m_send" THEN MakersPerBundle ELSE 1
            funded == attempt.txs[1].accounts
        IN  /\ Len(attempt.txs) = n + 1
            /\ attempt.txs[1].type = "fund"
            /\ Len(funded) = n
            /\ funded = attempt.signers
            /\ \A i, j \in 1 .. n : funded[i] = funded[j] => i = j
            /\ \A i \in 1 .. n :
                  /\ attempt.txs[i + 1].type = "swap"
                  /\ attempt.txs[i + 1].accounts = << funded[i] >>

\* C16 witness: a makers bundle of 5 transactions is being sent.
C16_Witness ==
    /\ pc = "m_send"
    /\ Len(attempt.txs) = MakersPerBundle + 1
    /\ attempt.txs[MakersPerBundle + 1].accounts = << keys >>

(***************************************************************************)
(* Properties of the makers loop, checked under SpecMakers.                *)
(***************************************************************************)
\* C17: an acknowledged bundle advances makersCompleted by exactly 4,
\* bundleCount by 1 and records a bundle id of the relay as latestBundleId; an
\* iteration that is not acknowledged or throws changes nothing of stats; stats
\* changes otherwise only at the call and at the return (finished).
C17_StatsChangeOnAcknowledgement ==
    [][ /\ (mrun.outcome = "none" /\ mrun'.outcome = "ack") =>
              /\ stats'.makersCompleted = stats.makersCompleted + MakersPerBundle
              /\ stats'.bundleCount = stats.bundleCount + 1
              /\ stats'.latestBundleId \in BundleIds
              /\ stats'.makersRemaining = totalMakersRequired - stats'.makersCompleted
              /\ stats'.finished = stats.finished
        /\ (mrun.outcome = "none" /\ mrun'.outcome \in {"nack", "throw"}) =>
              stats' = stats
        /\ stats' # stats =>
              \/ pc = "idle"
              \/ pc = "m_send" /\ mrun'.outcome = "ack"
              \/ pc' = "m_returned" /\ stats' = [ stats EXCEPT !.finished = TRUE ]
      ]_vars

\* C17 witness: the second bundle of a call was acknowledged after a failure.
C17_Witness ==
    /\ pc = "m_balance"
    /\ mrun.failures > 0
    /\ stats.bundleCount = 2
    /\ stats.makersCompleted = 2 * MakersPerBundle
    /\ stats.latestBundleId \in BundleIds

\* C18: an iteration of makers that throws goes to the catch block, whose pause
\* lasts at least 5000 ms; nothing of the failed attempt is kept, and the next
\* attempt starts with the refresh check and builds with newly generated
\* signers.
C18_MakersPauseThenFromScratch ==
    /\ [](/\ pc = "m_pause" => mrun.outcome = "throw"
          /\ pc \in {"m_pause", "m_loop", "m_refresh"} => attempt = NoAttempt)
    /\ [][ /\ (mrun.outcome # "throw" /\ mrun'.outcome = "throw") => pc' = "m_pause"
           /\ (pc = "m_pause" /\ pc' # pc) =>
                 /\ pc' = "m_loop"
                 /\ now' - now >= ErrorPauseMs
           /\ (attempt = NoAttempt /\ attempt' # NoAttempt) =>
                 /\ Len(attempt'.signers) = MakersPerBundle
                 /\ \A i \in 1 .. MakersPerBundle : attempt'.signers[i] > keys
                 /\ Len(attempt'.reqs) = MakersPerBundle
                 /\ attempt'.txs = << FundTx(attempt'.signers, blockhash') >>
         ]_vars

\* C18 witness: the second attempt of a call is under way after the first threw.
C18_Witness ==
    /\ pc = "m_swaps"
    /\ mrun.iterations = 2
    /\ mrun.failures = 1
    /\ now >= StartTime + ErrorPauseMs
    /\ attempt.signers[1] = MakersPerBundle + 1

\* C19: the signers of an attempt are keys generated for it: when an attempt
\* gets its signers, none of them was generated before, and the funding
\* transaction, the requests and the swap transactions of an attempt use no
\* other key than its signers.
C19_SignersAreSingleUse ==
    /\ [](/\ \A i \in 1 .. Len(attempt.signers) : attempt.signers[i] \in 1 .. keys
          /\ \A i \in 1 .. Len(attempt.reqs) :
                attempt.reqs[i].signer = attempt.signers[i]
          /\ \A i \in 1 .. Len(attempt.txs) :
                \A j \in 1 .. Len(attempt.txs[i].accounts) :
                    \E k \in 1 .. Len(attempt.signers) :
                        attempt.txs[i].accounts[j] = attempt.signers[k])
    /\ [][ (attempt'.signers # attempt.signers /\ attempt'.signers # << >>) =>
              \A i \in 1 .. Len(attempt'.signers) : attempt'.signers[i] > keys
         ]_vars

\* C19 witness: the third attempt of a volume call runs with the third key.
C19_Witness ==
    /\ pc = "v_swap"
    /\ vit.n = 3
    /\ keys = 3
    /\ attempt.signers = << 3 >>

\* C20: as long as no bundle was acknowledged, a makers call for at least one
\* maker has not returned, whatever number of iterations failed, and
\* makersCompleted is 0; makersCompleted is 4 times the acknowledged bundles.
C20_MakersRetriesWithoutBound ==
    /\ (totalMakersRequired > 0 /\ stats.bundleCount = 0) =>
          /\ pc # "m_returned"
          /\ ~stats.finished
          /\ stats.makersCompleted = 0
    /\ stats.makersCompleted = MakersPerBundle * stats.bundleCount

\* C20 witness: the third attempt of a call follows two failed ones.
C20_Witness ==
    /\ pc = "m_swaps"
    /\ mrun.iterations = 3
    /\ mrun.failures = 2
    /\ stats.makersCompleted = 0
    /\ totalMakersRequired > 0

(***************************************************************************)
(* Properties of the fan-out of makers, checked under SpecMakers.          *)
(***************************************************************************)
\* C21: in makers a bundle is submitted only when all 4 swap requests of the
\* iteration have produced their signed transaction; when one of them fails,
\* however many of the others have completed, the catch block runs, no bundle
\* is submitted for the iteration and the stats do not change.
C21_SwapRequestsAreJoined ==
    /\ [](/\ pc = "m_swaps" =>
                /\ attempt.done < MakersPerBundle
                /\ Len(attempt.reqs) = MakersPerBundle
                /\ Len(attempt.txs) = 1
          /\ pc = "m_send" =>
                /\ attempt.done = MakersPerBundle
                /\ mrun.joined = MakersPerBundle
                /\ Len(attempt.txs) = MakersPerBundle + 1)
    /\ [][ /\ mrun'.submitted # mrun.submitted =>
                /\ pc = "m_swaps" /\ pc' = "m_send"
                /\ attempt.done = MakersPerBundle - 1
                /\ mrun'.submitted = mrun.submitted + 1
           /\ (pc = "m_swaps" /\ mrun'.outcome = "throw") =>
                /\ pc' = "m_pause"
                /\ mrun'.joined = attempt.done
                /\ mrun'.submitted = mrun.submitted
                /\ mrun'.failures = mrun.failures + 1
                /\ attempt' = NoAttempt
                /\ stats' = stats
         ]_vars

\* C21 witness: an iteration failed for want of a route after 3 of its 4
\* requests had produced their transaction.
C21_Witness ==
    /\ pc = "m_pause"
    /\ mrun.error = "noroute"
    /\ mrun.joined = MakersPerBundle - 1
    /\ mrun.submitted = 0

(***************************************************************************)
(* Properties of the session state, checked under Spec.                    *)
(***************************************************************************)
\* A workflow call is suspended at an await.
Suspended ==
    pc \in {"m_refresh", "m_swaps", "m_send", "m_balance", "m_pause",
            "v_refresh", "v_swap", "v_send", "v_balance", "v_sleep", "v_pause",
            "s_init", "s_quote", "s_build", "s_send"}

\* C22: while a makers, volume or swap call is suspended at an await, the
\* cached recent-block value and its marker are written by that call only: a
\* step that changes them is a step of the call.
C22_CacheWrittenByRunningWorkflowOnly ==
    [][ (Suspended /\ << blockhash, lastBlockhashRefresh >>' #
                      << blockhash, lastBlockhashRefresh >>) => pc' # pc ]_vars

(***************************************************************************)
(* Properties of swap, checked under SpecSwapSession.                      *)
(***************************************************************************)
SwapPcs == {"s_init", "s_resume", "s_quote", "s_build", "s_send"}

\* swap has rejected because the relay answered without a result, with error e.
SwapRejectedWith(e) ==
    /\ pc = "s_rejected"
    /\ srun.received = "json"
    /\ srun.response.result = NoBundle
    /\ srun.response.error = e

\* C23 as claimed: a swap call that the relay answers without a result and
\* with error e rejects with a message containing e and has changed nothing of
\* the cached state.
C23_FailedSwapChangesNoCachedState ==
    \A e \in RelayErrors :
        SwapRejectedWith(e) =>
            /\ Contains(srun.error, e)
            /\ blockhash = srun.hash0

\* C23 amended: a swap call that the relay answers without a result and with
\* error e rejects with the message "Swap failed: " followed by e; no step of
\* the call changes a counter, and no step of it changes the session state
\* except the end of its own fetch, made when the cache was empty at entry.
C23_SwapFailedCarriesRelayError ==
    /\ [](\A e \in RelayErrors :
             SwapRejectedWith(e) =>
                 /\ srun.error = << "Swap failed: ", e >>
                 /\ Contains(srun.error, e))
    /\ [][ (pc \in SwapPcs /\ pc' # pc) =>
              /\ UNCHANGED << makersVars, totalNetVolume, totalRealVolume,
                              tradeCount, tradesUntilNextSell >>
              /\ (pc = "s_init" /\ srun.hash0 = 0) \/ UNCHANGED << sessionVars, cache >>
         ]_vars

\* C23 witness: swap has rejected with "Swap failed: x".
C23_Witness ==
    /\ SwapRejectedWith("x")
    /\ srun.error = << "Swap failed: ", "x" >>
    /\ srun.hash0 # 0

\* C24: a swap call makes at most one quote request, one swap-transaction
\* request and one bundle submission; it resolves only when the relay's answer
\* has a result, rejects on every other answer, and once settled it does
\* nothing more.
C24_SwapNeverRetries ==
    /\ [](/\ srun.quotes <= 1 /\ srun.builds <= 1 /\ srun.sends <= 1
          /\ srun.builds <= srun.quotes /\ srun.sends <= srun.builds
          /\ pc = "s_returned" =>
                /\ srun.sends = 1
                /\ srun.received = "json"
                /\ srun.response.result \in BundleIds
          /\ (pc = "s_rejected" /\ srun.received = "json") =>
                srun.response.result = NoBundle)
    /\ [][ /\ (pc = "s_send" /\ pc' # pc) => pc' \in {"s_returned", "s_rejected"}
           /\ (pc \in {"s_returned", "s_rejected"} /\ pc' # pc) =>
                 /\ pc' = "idle"
                 /\ srun' = srun
           /\ (pc \in SwapPcs /\ pc' # pc) =>
                 pc' \in SwapPcs \cup {"s_returned", "s_rejected"}
         ]_vars

\* C24 witness: the second swap call on an object has rejected after one
\* submission that was not acknowledged.
C24_Witness ==
    /\ pc = "s_rejected"
    /\ srun.call = 2
    /\ srun.quotes = 1 /\ srun.builds = 1 /\ srun.sends = 1
    /\ srun.received = "json"
    /\ srun.response.result = NoBundle

\* C25: a swap call fetches a recent-block value if and only if none is cached
\* at entry, and then exactly once, before the funding transaction is built;
\* with a cached value it makes no fetch and writes neither the value nor the
\* marker, however much time has passed.
C25_SwapFetchesOnlyWhenEmpty ==
    /\ [](/\ srun.fetches = IF srun.call >= 1 /\ srun.hash0 = 0 THEN 1 ELSE 0
          /\ pc = "s_init" => (srun.quotes = 0 /\ attempt.txs = << >>))
    /\ [][ /\ (pc \in SwapPcs /\ pc' # pc /\ srun.hash0 # 0) =>
                 UNCHANGED << blockhash, lastBlockhashRefresh >>
           /\ (pc \in SwapPcs /\ pc' # pc /\ pc # "s_init") =>
                 UNCHANGED << blockhash, lastBlockhashRefresh >>
           /\ (pc = "idle" /\ pc' \in SwapPcs) =>
                 (pc' = "s_init" <=> blockhash = 0)
         ]_vars

\* C25 witness: a second swap call has resolved without a fetch, with the value
\* cached before time passed.
C25_Witness ==
    /\ pc = "s_returned"
    /\ srun.call = 2
    /\ srun.hash0 # 0
    /\ srun.fetches = 0
    /\ now > StartTime
    /\ initPending

(***************************************************************************)
(* Properties of the error paths, checked under Spec.                      *)
(***************************************************************************)
NoRouteErrors == {"noroute", "noswaptx"}

\* C26: "no route" and "no swap transaction" are thrown by the swap-route
\* client; in makers and volume the catch block takes them: no bundle is
\* submitted, the counters do not change, the loop goes on after the 5000 ms
\* pause and the call does not end; in swap the call rejects with them and no
\* bundle is submitted.
C26_NoRouteCaughtInLoopsRaisedInSwap ==
    [][ /\ (mrun.error = "none" /\ mrun'.error \in NoRouteErrors) =>
              /\ pc = "m_swaps" /\ pc' = "m_pause"
              /\ attempt' = NoAttempt
              /\ mrun'.submitted = mrun.submitted
              /\ stats' = stats
        /\ (vit.error = "none" /\ vit'.error \in NoRouteErrors) =>
              /\ pc = "v_swap" /\ pc' = "v_pause"
              /\ attempt' = NoAttempt
              /\ UNCHANGED << totalNetVolume, totalRealVolume, tradeCount >>
        /\ (pc \in {"m_pause", "v_pause"} /\ pc' # pc) =>
              /\ pc' = IF pc = "m_pause" THEN "m_loop" ELSE "v_loop"
              /\ now' - now >= ErrorPauseMs
        /\ (pc = "s_quote" /\ pc' # pc) =>
              IF srun'.routes >= 1
              THEN pc' = "s_build"
              ELSE /\ pc' = "s_rejected"
                   /\ srun'.error = << IF srun'.routes = 0 THEN "noroute" ELSE "neterr" >>
                   /\ srun'.builds = 0
        /\ (srun.error = << >> /\ srun'.error \in { << e >> : e \in NoRouteErrors }) =>
              /\ pc' = "s_rejected"
              /\ srun'.sends = 0
              /\ attempt' = NoAttempt
      ]_vars

\* C26 witness: the second iteration of volume, after a first trade, is in the
\* catch block for want of a swap transaction.
C26_Witness ==
    /\ pc = "v_pause"
    /\ vit.n = 2
    /\ vit.error = "noswaptx"
    /\ tradeCount = 1
    /\ attempt = NoAttempt

\* C27: a funding transaction is never built with a missing recent-block
\* value: the build throws at once (the catch block of makers and volume runs,
\* swap rejects) and nothing of the attempt exists; the next iteration does not
\* build with the missing value again: it starts with a fetch.
C27_MissingBlockhashRejectedAtBuild ==
    /\ [](/\ attempt.txs # << >> => attempt.txs[1].recentBlockhash # 0
          /\ (Requesting \/ Sending) => attempt.txs # << >>)
    /\ [][ /\ (mrun.error = "none" /\ mrun'.error = "invalidblockhash") =>
                 /\ pc' = "m_pause"
                 /\ blockhash' = 0
                 /\ attempt' = NoAttempt
           /\ (vit.error = "none" /\ vit'.error = "invalidblockhash") =>
                 /\ pc' = "v_pause"
                 /\ blockhash' = 0
                 /\ attempt' = NoAttempt
           /\ (srun.error = << >> /\ srun'.error = << "invalidblockhash" >>) =>
                 /\ pc' = "s_rejected"
                 /\ blockhash' = 0
                 /\ attempt' = NoAttempt
           /\ (pc \in {"m_loop", "v_loop"} /\ pc' # pc /\ blockhash = 0) =>
                 pc' \in {"m_refresh", "v_refresh", "m_returned"}
           /\ (pc \in {"m_refresh", "v_refresh", "s_resume"} /\ pc' # pc
                 /\ blockhash' = 0) =>
                 pc' \in {"m_pause", "v_pause", "s_rejected"}
         ]_vars

\* C27 witness: the second iteration of makers fetches again after the first
\* fetched a value that the build rejected.
C27_Witness ==
    /\ pc = "m_refresh"
    /\ mrun.iterations = 2
    /\ mrun.failures = 1
    /\ blockhash = 0
    /\ cache.by = "makers"
    /\ keys = MakersPerBundle

(***************************************************************************)
(* Properties of the funding transaction, checked under SpecFund.          *)
(***************************************************************************)
\* The funding transaction was built / the call threw for the tip.
FundBuilt == fund.stage = "built"
FundInstructionOf(tx) == tx.instructions[Len(tx.instructions)]

\* C28: for every tip in [0, 2^63) and a usable recent-block value the build
\* gives a payload of exactly 9 bytes, byte 0 the command tag and bytes 1..8
\* the tip, least significant byte first: read back, they give the tip.
C28_TipRoundTrips ==
    (fund.stage \in {"built", "thrown"} /\ fund.blockhash # 0) =>
        /\ FundBuilt
        /\ Len(FundInstructionOf(fund.tx).data) = 9
        /\ FundInstructionOf(fund.tx).data[1] \in {0, 3}
        /\ DecodeTip(FundInstructionOf(fund.tx).data) = fund.tip

\* C29: the 4-recipient path and the 1-recipient path emit different tags; the
\* account list is the payer, then the recipients in order, writable and not
\* signers (4 in the 4-recipient path), then one relay account of the
\* configured ones, then the two fee accounts, then the system program.
C29_FundAccountList ==
    FundBuilt =>
        LET ix == FundInstructionOf(fund.tx)
            n == fund.recipients
        IN  /\ ix.data[1] = IF n = 4 THEN 0 ELSE 3
            /\ Len(ix.keys) = n + 5
            /\ ix.keys[1] = Meta(Payer, TRUE, TRUE)
            /\ \A i \in 1 .. n : ix.keys[i + 1] = Meta(Ephemeral(i), FALSE, TRUE)
            /\ \E j \in 1 .. JitoAccounts :
                  ix.keys[n + 2] = Meta(JitoAccount(j), FALSE, TRUE)
            /\ ix.keys[n + 3] = Meta(FeeAccount(1), FALSE, TRUE)
            /\ ix.keys[n + 4] = Meta(FeeAccount(2), FALSE, TRUE)
            /\ ix.keys[n + 5] = Meta(SystemProgramId, FALSE, FALSE)
            /\ Cardinality({ i \in 1 .. Len(ix.keys) : ix.keys[i].pubkey.kind = "jito" }) = 1
            /\ Cardinality({ i \in 1 .. Len(ix.keys) : ix.keys[i].pubkey.kind = "ephemeral" }) = n

\* C29 witness: a 4-recipient funding transaction tips the last relay account.
C29_Witness ==
    /\ FundBuilt
    /\ fund.recipients = 4
    /\ FundInstructionOf(fund.tx).data[1] = 0
    /\ FundInstructionOf(fund.tx).keys[6].pubkey = JitoAccount(JitoAccounts)

\* C30: a funding transaction has 3 instructions: compute-unit price 16666
\* micro-lamports, compute-unit limit 600000, then the funding instruction; it
\* is signed by the payer and by nobody else, and the payer is the only
\* signature its message requires.
C30_PriorityFeesAndPayerOnly ==
    FundBuilt =>
        /\ Len(fund.tx.instructions) = 3
        /\ fund.tx.instructions[1] =
              [ program |-> "ComputeBudget", name |-> "setComputeUnitPrice",
                value |-> 16666 ]
        /\ fund.tx.instructions[2] =
              [ program |-> "ComputeBudget", name |-> "setComputeUnitLimit",
                value |-> 600000 ]
        /\ fund.tx.instructions[3].program = "AMM"
        /\ fund.tx.payerKey = Payer
        /\ fund.tx.signedBy = { Payer }
        /\ RequiredSigners(fund.tx) = { Payer }
        /\ \A k \in 1 .. fund.recipients : Ephemeral(k) \notin fund.tx.signedBy

\* C30 witness: a 1-recipient funding transaction signed by the payer.
C30_Witness ==
    /\ FundBuilt
    /\ fund.recipients = 1
    /\ fund.tx.signedBy = { Payer }
    /\ fund.tx.instructions[2].value = UnitLimit

(***************************************************************************)
(* Properties of the makers statistics, checked under SpecMakers.          *)
(***************************************************************************)
\* C34: in every state of a makers call makersCompleted = 4 * bundleCount,
\* makersRemaining = totalMakersRequired - makersCompleted, and latestBundleId
\* is null exactly when bundleCount = 0; makersCompleted and bundleCount never
\* decrease during the call.
C34_StatsInvariant ==
    /\ [](/\ stats.makersCompleted = 4 * stats.bundleCount
          /\ stats.makersRemaining = totalMakersRequired - stats.makersCompleted
          /\ (stats.latestBundleId = NoBundle) <=> (stats.bundleCount = 0))
    /\ [][ pc # "idle" =>
              /\ stats'.makersCompleted >= stats.makersCompleted
              /\ stats'.bundleCount >= stats.bundleCount
              /\ (stats' # stats /\ pc # "m_loop") =>
                    /\ pc = "m_send"
                    /\ stats'.bundleCount = stats.bundleCount + 1
         ]_vars

\* C34 witness: the second bundle of a call for 9 makers has been acknowledged.
C34_Witness ==
    /\ pc = "m_balance"
    /\ totalMakersRequired = 9
    /\ stats.bundleCount = 2
    /\ stats.makersCompleted = 8
    /\ stats.makersRemaining = 1
    /\ stats.latestBundleId \in BundleIds

\* C35: when makers returns, bundleCount = max(0, ceil(totalMakersRequired / 4))
\* and makersCompleted = 4 * bundleCount; for totalMakersRequired <= 0 it has
\* returned at once, finished, with no iteration, no fetch of its own and no
\* bundle; for a totalMakersRequired that is not a multiple of 4 it has
\* completed more makers than required and makersRemaining is negative.
C35_ReturnsAfterCeilBundles ==
    pc = "m_returned" =>
        LET total == totalMakersRequired
            bundles == IF total <= 0 THEN 0
                       ELSE (total + MakersPerBundle - 1) \div MakersPerBundle
        IN  /\ stats.bundleCount = bundles
            /\ stats.makersCompleted = 4 * bundles
            /\ stats.finished
            /\ total <= 0 =>
                  /\ mrun.iterations = 0
                  /\ mrun.submitted = 0
                  /\ ~cache.own
                  /\ keys = 0
                  /\ now = StartTime
            /\ (total > 0 /\ total % MakersPerBundle # 0) =>
                  /\ stats.makersCompleted > total
                  /\ stats.makersRemaining < 0

\* C35 witness: a call for 9 makers has returned with 12 completed.
C35_Witness ==
    /\ pc = "m_returned"
    /\ totalMakersRequired = 9
    /\ stats.bundleCount = 3
    /\ stats.makersCompleted = 12
    /\ stats.makersRemaining = -3

\* C36: a relay response without a result leaves the stats as they are and the
\* loop goes to its test at once; time passes in a makers call only in the
\* catch block, which is entered only by an exception.
C36_NoPauseWithoutResult ==
    [][ /\ (pc = "m_send" /\ mrun'.outcome = "nack") =>
              /\ pc' = "m_loop"
              /\ stats' = stats
              /\ now' = now
        /\ (pc = "m_loop" /\ mrun.outcome = "nack" /\ pc' # pc) =>
              /\ now' = now
              /\ pc' \in {"m_refresh", "m_swaps", "m_pause"}
              /\ pc' = "m_pause" => mrun'.error = "invalidblockhash"
        /\ now' # now => (pc = "m_pause" /\ mrun.outcome = "throw")
      ]_vars

\* C36 witness: a third bundle is being submitted at the time of the call, the
\* first two having been answered without a result.
C36_Witness ==
    /\ pc = "m_send"
    /\ now = StartTime
    /\ mrun.submitted = 3
    /\ mrun.failures = 2
    /\ mrun.kinds = {"relay"}
    /\ stats.bundleCount = 0

(***************************************************************************)
(* Properties of the quote requests, checked under Spec.                   *)
(***************************************************************************)
\* C33: the quote request is a fixed function of workflow and direction: makers
\* asks for a buy with an exact output of 1 (wrapped SOL in, mint out), and
\* never for a sell (which would be an exact input of 1, mint in, wrapped SOL
\* out); volume and swap ask for an exact input of the computed amount for a buy
\* (wrapped SOL in, mint out) and for an exact output of it for a sell (mint in,
\* wrapped SOL out).
C33_QuoteByWorkflowAndDirection ==
    /\ pc = "m_swaps" =>
          attempt.quote = [ swapMode |-> "ExactOut", inputMint |-> WsolMint,
                            outputMint |-> TokenMint, amount |-> 1 ]
    /\ SwapMakersQuote("sell") = [ swapMode |-> "ExactIn", inputMint |-> TokenMint,
                                   outputMint |-> WsolMint, amount |-> 1 ]
    /\ (pc \in {"v_swap", "s_quote", "s_build"} /\ direction = "buy") =>
          attempt.quote = [ swapMode |-> "ExactIn", inputMint |-> WsolMint,
                            outputMint |-> TokenMint, amount |-> amount ]
    /\ (pc \in {"v_swap", "s_quote", "s_build"} /\ direction = "sell") =>
          attempt.quote = [ swapMode |-> "ExactOut", inputMint |-> TokenMint,
                            outputMint |-> WsolMint, amount |-> amount ]
    /\ pc \in {"v_swap", "s_quote", "s_build"} => direction \in {"buy", "sell"}

\* C33 witness: volume requests a sell of a positive amount.
C33_Witness ==
    /\ pc = "v_swap"
    /\ direction = "sell"
    /\ amount > 0
    /\ attempt.quote.swapMode = "ExactOut"
    /\ attempt.quote.amount = amount

(***************************************************************************)
(* Properties of the sell countdown, checked under SpecVolume.              *)
(***************************************************************************)
\* C38: the countdown is written when the direction is decided and by no other
\* step; a decision made with a positive net volume and a countdown <= 0 is a
\* sell; the countdown is at most 3 and, added to the number of buys decided in
\* a row with a positive net volume, still at most 3: so there are never more
\* than 3 such buys in a row.
C38_AtMostThreeBuysInRow ==
    /\ [](/\ tradesUntilNextSell <= 3
          /\ vit.buys + tradesUntilNextSell <= 3
          /\ vit.buys <= 3)
    /\ [][ /\ (~vit.decided /\ vit'.decided) =>
                 /\ (totalNetVolume > 0 /\ tradesUntilNextSell <= 0) =>
                       direction' = "sell"
                 /\ direction' = "sell" =>
                       (tradesUntilNextSell' \in 1 .. 3 /\ vit'.buys = 0)
                 /\ direction' = "buy" =>
                       /\ tradesUntilNextSell' = tradesUntilNextSell - 1
                       /\ vit'.buys = IF totalNetVolume > 0 THEN vit.buys + 1 ELSE 0
           /\ (pc # "idle" /\ ~(~vit.decided /\ vit'.decided)) =>
                 /\ tradesUntilNextSell' = tradesUntilNextSell
                 /\ vit'.buys = vit.buys
         ]_vars

\* C38 witness: the third iteration sells because the countdown has run out,
\* not by the random trigger, after a buy decided with a positive net volume.
C38_Witness ==
    /\ pc = "v_swap"
    /\ vit.n = 3
    /\ direction = "sell"
    /\ ~vit.trig
    /\ vit.net0 > 0
    /\ vit.trades0 = 0
    /\ tradeCount = 2

(***************************************************************************)
(* Properties of the balance samples, checked under Spec.                  *)
(***************************************************************************)
\* C40: getTokenBalance and getSolBalance never raise and return 0 when the
\* RPC call fails; the balance sample that follows an acknowledged bundle,
\* failed or not, ends the iteration the normal way: makers goes to its loop
\* test and volume to its pacing sleep, with no error pause, no failed
\* iteration and the counters of the bundle kept.
C40_BalanceNeverRaises ==
    /\ [](/\ tbal.stage = "settled" =>
                /\ ~tbal.raised
                /\ pc = "t_returned"
                /\ ~tbal.ok => tbal.value = 0
          /\ \A ans \in BalanceAnswers :
                /\ ~GetSolBalance(ans).raised
                /\ ~ans.ok => GetSolBalance(ans).value = 0)
    /\ [][ /\ (pc = "m_balance" /\ pc' # pc) =>
                 /\ pc' = "m_loop"
                 /\ stats' = stats
                 /\ now' = now
                 /\ mrun'.failures = mrun.failures
                 /\ mrun'.outcome = "ack"
           /\ (pc = "v_balance" /\ pc' # pc) =>
                 /\ pc' = "v_sleep"
                 /\ vit'.sleepKind = "pacing"
                 /\ vit'.outcome = "ack"
                 /\ now' = now
                 /\ UNCHANGED << totalNetVolume, totalRealVolume, tradeCount >>
         ]_vars

\* C40 witness: a getTokenBalance call whose RPC call failed has returned 0.
C40_Witness ==
    /\ pc = "t_returned"
    /\ tbal.stage = "settled"
    /\ ~tbal.ok
    /\ ~tbal.raised
    /\ tbal.value = 0

(***************************************************************************)
(* Properties of the relay client, checked under Spec.                     *)
(***************************************************************************)
\* C31: a sendBundle call makes exactly one POST and settles with its outcome:
\* a network error reaches the caller as it is (the catch block of makers and
\* volume, the rejection of swap), and a response without a result is a failed
\* attempt for every caller: no counter of makers or volume changes and swap
\* rejects.
C31_SendBundleOnePostNoRetry ==
    /\ [](/\ Sending => attempt.posts = 1
          /\ ~Sending => attempt.posts = 0)
    /\ [][ /\ (Sending /\ pc' = pc) => attempt' = attempt
           /\ (pc = "m_send" /\ pc' # pc) =>
                 /\ mrun'.submitted = mrun.submitted
                 /\ mrun'.outcome \in {"ack", "nack", "throw"}
                 /\ mrun'.outcome = "throw" => (pc' = "m_pause" /\ mrun'.error = "relay")
                 /\ mrun'.outcome # "ack" => (stats' = stats /\ cache' = cache)
           /\ (pc = "v_send" /\ pc' # pc) =>
                 /\ vit'.outcome \in {"ack", "nack", "throw"}
                 /\ vit'.outcome = "throw" => (pc' = "v_pause" /\ vit'.error = "relay")
                 /\ vit'.outcome # "ack" =>
                       UNCHANGED << totalNetVolume, totalRealVolume, tradeCount >>
           /\ (pc = "s_send" /\ pc' # pc) =>
                 /\ srun'.sends = srun.sends
                 /\ srun'.received = "neterr" =>
                       (pc' = "s_rejected" /\ srun'.error = << "neterr" >>)
                 /\ (srun'.received = "json" /\ srun'.response.result = NoBundle) =>
                       pc' = "s_rejected"
         ]_vars

\* C31 witness: in the second iteration of volume, after a first trade, the
\* POST of sendBundle failed and the catch block runs, with one trade counted.
C31_Witness ==
    /\ pc = "v_pause"
    /\ vit.n = 2
    /\ vit.requested
    /\ vit.error = "relay"
    /\ tradeCount = 1

(***************************************************************************)
(* Properties of the random choice of relay endpoint and relay account,   *)
(* checked under SpecSwapSession.                                          *)
(***************************************************************************)
\* C32: the relay endpoint a bundle is posted to is an entry of JITO_URLS and
\* the relay account a funding transaction tips is an entry of JITO_ACCOUNTS;
\* whatever was chosen before and whatever came of earlier submissions, a call
\* that is about to choose can choose every entry.
C32_RelayChoiceFromConfiguredSets ==
    /\ srun.url \in {NoChoice} \cup { [ kind |-> "url", id |-> u ] : u \in 1 .. JitoUrls }
    /\ srun.tipAccount \in
          {NoChoice} \cup { [ kind |-> "jito", id |-> j ] : j \in 1 .. JitoAccounts }
    /\ pc \in {"s_send", "s_returned"} => srun.url.kind = "url"
    /\ pc \in {"s_quote", "s_build", "s_send", "s_returned"} => srun.tipAccount.kind = "jito"
    /\ pc = "s_build" =>
          \A u \in 1 .. JitoUrls :
             ENABLED (SwapBuildDone /\ srun'.url = [ kind |-> "url", id |-> u ])
    /\ pc = "s_resume" =>
          \A j \in 1 .. JitoAccounts :
             ENABLED (SwapResume /\ srun'.tipAccount = [ kind |-> "jito", id |-> j ])
    /\ (pc = "idle" /\ blockhash # 0) =>
          \A j \in 1 .. JitoAccounts :
             ENABLED (CallSwap /\ srun'.tipAccount = [ kind |-> "jito", id |-> j ])

\* C32 witness: the second swap call on an object is about to post its bundle;
\* the first call posted to the first endpoint, the second has tipped the last
\* relay account and can post to the last endpoint.
C32_Witness ==
    /\ pc = "s_build"
    /\ srun.call = 2
    /\ srun.url = [ kind |-> "url", id |-> 1 ]
    /\ srun.tipAccount = [ kind |-> "jito", id |-> JitoAccounts ]
    /\ ENABLED (SwapBuildDone /\ srun'.url = [ kind |-> "url", id |-> JitoUrls ])

(***************************************************************************)
(* Properties of the tip option, checked under SpecFund.                   *)
(***************************************************************************)
\* C39: the tip in the payload of a funding transaction is the caller's
\* jitoTipLamports when that is a number other than 0, and otherwise 100000
\* lamports in makers and 1000000 lamports in volume and swap; a tip of 0 is
\* replaced by the default, and no funding transaction carries a tip of 0.
C39_TipOptionOrDefault ==
    /\ fund.stage # "none" =>
          fund.tip = IF fund.option.kind = "number" /\ fund.option.value # << 0, 0, 0, 0 >>
                     THEN fund.option.value
                     ELSE IF fund.workflow = "makers" THEN << 34464, 1, 0, 0 >>
                                                      ELSE << 16960, 15, 0, 0 >>
    /\ FundBuilt =>
          /\ DecodeTip(FundInstructionOf(fund.tx).data) = AsNumber(fund.tip)
          /\ DecodeTip(FundInstructionOf(fund.tx).data) # << 0, 0, 0, 0 >>

\* C39 witness: volume called with jitoTipLamports: 0 has built a funding
\* transaction whose payload carries 1000000 lamports.
C39_Witness ==
    /\ FundBuilt
    /\ fund.workflow = "volume"
    /\ fund.option = [ kind |-> "number", value |-> << 0, 0, 0, 0 >> ]
    /\ DecodeTip(FundInstructionOf(fund.tx).data) = << 16960, 15, 0, 0 >>

(***************************************************************************)
(* Termination of makers, checked under SpecMakersLive.                    *)
(***************************************************************************)
\* An iteration of makers ends in failure: a refresh, a swap request or the
\* submission throws, or the relay answers without a result.
MakersIterationFails == mrun'.failures # mrun.failures

\* C37: if from some point on no iteration of makers fails (every refresh,
\* every swap request succeeds and every bundle is acknowledged), a makers call
\* returns, whatever its totalMakersRequired.
C37_MakersTerminates ==
    (<>[][~MakersIterationFails]_vars) =>
        ((pc \in {"m_loop", "m_refresh", "m_swaps", "m_send", "m_balance", "m_pause"})
            ~> (pc = "m_returned" /\ stats.finished))

\* C37 witness: a makers call for more than 4 makers has returned after two
\* failed iterations, one for the aggregator and one for the relay.
C37_Witness ==
    /\ pc = "m_returned"
    /\ stats.finished
    /\ totalMakersRequired > 4
    /\ stats.makersCompleted >= totalMakersRequired
    /\ mrun.failures = 2
    /\ mrun.kinds = {"agg", "relay"}
====
